---------------------------- MODULE Spec2Model ----------------------------
(***************************************************************************)
(* The resilience layer of the twitter-service: TwitterHealthMonitor       *)
(* (health_monitor.py), AccountPool (account_pool.py), the failover logic  *)
(* of UnifiedTwitterClient (unified_twitter_client.py) and the endpoints   *)
(* of main_v2.py that drive them.                                          *)
(*                                                                         *)
(* The variables are the module-level objects of the service.  Coroutines  *)
(* run on one asyncio event loop: the code between two suspension points   *)
(* (an awaited network call) is one atomic action.  Operations are written *)
(* as operators over a record `w` of the whole program state, so that a    *)
(* synchronous call chain (record_failure -> alert callback -> switch ->   *)
(* recursive search_token) composes into one action.                       *)
(*                                                                         *)
(* Text (error types, messages, query terms, cache keys) is a sequence of  *)
(* one-character strings.  Time is a natural number of minutes.  Floating  *)
(* point ratios are compared exactly, by cross-multiplication.             *)
(***************************************************************************)
EXTENDS Integers, Sequences, FiniteSets, TLC

VARIABLES
    now,             \* the wall clock (datetime.now(), time.time()), minutes
    phase,           \* "constructed" before main_v2.lifespan ran, then "running"
    health_monitor,  \* health_monitor.health_monitor
    account_pool,    \* account_pool.account_pool
    grok_client,     \* grok_client.grok_client
    twitter_client,  \* unified_twitter_client.twitter_client
    alerts_history,  \* main_v2.alerts_history
    tasks,           \* coroutines handed to asyncio.create_task, not yet run
    reqs,            \* the search_token coroutines, one per request slot
    journal,         \* what the last operation was and what it emitted
    used             \* how much of each exploration budget is spent

vars == <<now, phase, health_monitor, account_pool, grok_client, twitter_client,
          alerts_history, tasks, reqs, journal, used>>

-----------------------------------------------------------------------------
(* Bounds of the exploration *)

NumAccounts == 2      \* accounts configured at most
NumSlots == 2         \* search_token coroutines in flight at most
MaxEvents == 3        \* requests, endpoint calls and clock steps of a run
MaxOps == 6           \* calls made on a monitor taken alone
MaxPoolOps == 2       \* calls made on a pool taken alone
MaxBusOps == 3        \* calls made on the alert path taken alone
MaxRingOps == 4       \* calls made on a monitor whose buffers are near full
RecursionLimit == 3   \* nested search_token frames the interpreter allows

(* Program constants *)

max_consecutive_failures == 5
time_window_minutes == 15
MaxFailureReasons == 50
MaxResponseTimes == 100
MaxAlertsHistory == 100
CacheExpireMinutes == 5

None == 0 - 1

-----------------------------------------------------------------------------
(* Text *)

UpperCase == <<"A","B","C","D","E","F","G","H","I","J","K","L","M","N","O","P","Q","R","S","T","U","V","W","X","Y","Z">>
LowerCase == <<"a","b","c","d","e","f","g","h","i","j","k","l","m","n","o","p","q","r","s","t","u","v","w","x","y","z">>

LowerChar(c) ==
    IF \E i \in 1..Len(UpperCase) : UpperCase[i] = c
    THEN LowerCase[CHOOSE i \in 1..Len(UpperCase) : UpperCase[i] = c]
    ELSE c

\* str.lower()
Lower(s) == [i \in 1..Len(s) |-> LowerChar(s[i])]

\* `kw in s` for strings: kw occurs as a contiguous run of s
Contains(s, kw) ==
    \E i \in 1..(Len(s) - Len(kw) + 1) : SubSeq(s, i, i + Len(kw) - 1) = kw

critical_keywords == <<
    <<"s","u","s","p","e","n","d","e","d">>,
    <<"b","a","n","n","e","d">>,
    <<"l","o","c","k","e","d">>,
    <<"a","c","c","o","u","n","t"," ","n","o","t"," ","f","o","u","n","d">>,
    <<"a","u","t","h","o","r","i","z","a","t","i","o","n"," ","f","a","i","l","e","d">>,
    <<"i","n","v","a","l","i","d"," ","c","r","e","d","e","n","t","i","a","l","s">>,
    <<"f","o","r","b","i","d","d","e","n">>,
    <<"4","0","3">> >>

\* A mutant of _is_critical_failure: the match is case-sensitive and looks at
\* the message only.
IsCriticalFailureMessageOnly(error_type, error_message) ==
    \E k \in 1..Len(critical_keywords) : Contains(error_message, critical_keywords[k])

\* TwitterHealthMonitor._is_critical_failure
IsCriticalFailure(error_type, error_message) ==
    LET error_lower == Lower(error_type \o <<" ">> \o error_message)
    IN  \E k \in 1..Len(critical_keywords) : Contains(error_lower, critical_keywords[k])

-----------------------------------------------------------------------------
(* health_monitor.py *)

HEALTHY == "healthy"
DEGRADED == "degraded"
FAILING == "failing"
FAILED == "failed"
HealthStatus == {HEALTHY, DEGRADED, FAILING, FAILED}

\* min_success_rate = 0.7 and degraded_threshold = 0.85, in percent
min_success_rate_pct == 70
degraded_threshold_pct == 85

\* HealthMetrics.__init__ ; average_response_time is kept as the exact ratio
NewMetrics ==
    [ total_requests |-> 0,
      successful_requests |-> 0,
      failed_requests |-> 0,
      consecutive_failures |-> 0,
      last_success_time |-> None,
      last_failure_time |-> None,
      failure_reasons |-> <<>>,
      average_response_time |-> [sum |-> 0, n |-> 1],
      response_times |-> <<>> ]

\* TwitterHealthMonitor.__init__ ; alert_callbacks holds the names of the
\* registered callbacks
NewHealthMonitor ==
    [ metrics |-> NewMetrics, status |-> HEALTHY, recent_events |-> <<>>,
      alert_callbacks |-> <<>> ]

\* register_alert_callback, of the monitor and of the client alike
RegisterAlertCallback(obj, callback) ==
    [obj EXCEPT !.alert_callbacks = Append(@, callback)]

RECURSIVE SumSeq(_)
SumSeq(s) == IF s = <<>> THEN 0 ELSE Head(s) + SumSeq(Tail(s))

\* TwitterHealthMonitor._record_event: append, then drop what is older than
\* the window.  Of an event only the timestamp and the type are ever read.
RecordEvent(hm, event_type, t) ==
    LET appended == Append(hm.recent_events, [timestamp |-> t, type |-> event_type])
        cutoff == t - time_window_minutes
    IN  [hm EXCEPT !.recent_events = SelectSeq(appended, LAMBDA e : e.timestamp > cutoff)]

WindowSuccesses(hm) ==
    Cardinality({i \in 1..Len(hm.recent_events) : hm.recent_events[i].type = "success"})

\* A mutant of the status decision: the streak must exceed the threshold.
DetermineStatusStrictStreak(consecutive_failures, successes, n) ==
    IF consecutive_failures > max_consecutive_failures THEN FAILING
    ELSE IF n > 0 /\ successes * 100 < min_success_rate_pct * n THEN FAILING
    ELSE IF n > 0 /\ successes * 100 < degraded_threshold_pct * n THEN DEGRADED
    ELSE HEALTHY

\* A mutant of the status decision: the two rate thresholds are inclusive.
DetermineStatusInclusive(consecutive_failures, successes, n) ==
    IF consecutive_failures >= max_consecutive_failures THEN FAILING
    ELSE IF n > 0 /\ successes * 100 <= min_success_rate_pct * n THEN FAILING
    ELSE IF n > 0 /\ successes * 100 <= degraded_threshold_pct * n THEN DEGRADED
    ELSE HEALTHY

\* The if/elif chain of TwitterHealthMonitor._update_status, with
\* window_success_rate = successes / n (1.0 when the window is empty)
DetermineStatus(consecutive_failures, successes, n) ==
    IF consecutive_failures >= max_consecutive_failures THEN FAILING
    ELSE IF n > 0 /\ successes * 100 < min_success_rate_pct * n THEN FAILING
    ELSE IF n > 0 /\ successes * 100 < degraded_threshold_pct * n THEN DEGRADED
    ELSE HEALTHY

\* A mutant of _update_status: the alert goes out at every re-evaluation.
UpdateStatusAlertsEachTime(hm) ==
    IF hm.status = FAILED
    THEN [hm |-> hm, alerts |-> <<>>]
    ELSE LET new == DetermineStatus(hm.metrics.consecutive_failures,
                                    WindowSuccesses(hm), Len(hm.recent_events))
         IN  [ hm |-> [hm EXCEPT !.status = new],
               alerts |-> << [type |-> "status_change", old_status |-> hm.status,
                              new_status |-> new] >> ]

\* A mutant of _update_status: the early return is taken only while the
\* last call recorded a failure.
UpdateStatusNotSticky(hm) ==
    IF hm.status = FAILED /\ hm.metrics.consecutive_failures > 0
    THEN [hm |-> hm, alerts |-> <<>>]
    ELSE
    LET new == DetermineStatus(hm.metrics.consecutive_failures,
                               WindowSuccesses(hm), Len(hm.recent_events))
    IN  [ hm |-> [hm EXCEPT !.status = new],
          alerts |-> IF new # hm.status
                     THEN << [type |-> "status_change", old_status |-> hm.status,
                              new_status |-> new] >>
                     ELSE <<>> ]

\* TwitterHealthMonitor._update_status: the monitor after it and the alerts
\* it hands to _trigger_alert
UpdateStatus(hm) ==
    IF hm.status = FAILED
    THEN [hm |-> hm, alerts |-> <<>>]
    ELSE LET new == DetermineStatus(hm.metrics.consecutive_failures,
                                    WindowSuccesses(hm), Len(hm.recent_events))
         IN  [ hm |-> [hm EXCEPT !.status = new],
               alerts |-> IF new # hm.status
                          THEN << [type |-> "status_change", old_status |-> hm.status,
                                   new_status |-> new] >>
                          ELSE <<>> ]

\* TwitterHealthMonitor.record_success
RecordSuccess(hm, response_time, t) ==
    LET appended == Append(hm.metrics.response_times, response_time)
        times == IF Len(appended) > MaxResponseTimes THEN Tail(appended) ELSE appended
        m == [hm.metrics EXCEPT
                !.total_requests = @ + 1,
                !.successful_requests = @ + 1,
                !.consecutive_failures = 0,
                !.last_success_time = t,
                !.response_times = times,
                !.average_response_time = [sum |-> SumSeq(times), n |-> Len(times)]]
    IN  UpdateStatus(RecordEvent([hm EXCEPT !.metrics = m], "success", t))

\* A mutant of record_failure: failure_reasons is not trimmed.
RecordFailureKeepsReasons(hm, error_type, error_message, t) ==
    LET m == [hm.metrics EXCEPT
                !.total_requests = @ + 1,
                !.failed_requests = @ + 1,
                !.consecutive_failures = @ + 1,
                !.last_failure_time = t,
                !.failure_reasons = Append(@, error_type \o <<":", " ">> \o error_message)]
        hm1 == RecordEvent([hm EXCEPT !.metrics = m], "failure", t)
        critical == IsCriticalFailure(error_type, error_message)
        hm2 == IF critical THEN [hm1 EXCEPT !.status = FAILED] ELSE hm1
        upd == UpdateStatus(hm2)
    IN  [ hm |-> upd.hm,
          alerts |-> (IF critical
                      THEN << [type |-> "critical_failure", error_type |-> error_type,
                               error_message |-> error_message] >>
                      ELSE <<>>) \o upd.alerts ]

\* TwitterHealthMonitor.record_failure
RecordFailure(hm, error_type, error_message, t) ==
    LET appended == Append(hm.metrics.failure_reasons,
                           error_type \o <<":", " ">> \o error_message)
        reasons == IF Len(appended) > MaxFailureReasons THEN Tail(appended) ELSE appended
        m == [hm.metrics EXCEPT
                !.total_requests = @ + 1,
                !.failed_requests = @ + 1,
                !.consecutive_failures = @ + 1,
                !.last_failure_time = t,
                !.failure_reasons = reasons]
        hm1 == RecordEvent([hm EXCEPT !.metrics = m], "failure", t)
        critical == IsCriticalFailure(error_type, error_message)
        hm2 == IF critical THEN [hm1 EXCEPT !.status = FAILED] ELSE hm1
        upd == UpdateStatus(hm2)
    IN  [ hm |-> upd.hm,
          alerts |-> (IF critical
                      THEN << [type |-> "critical_failure", error_type |-> error_type,
                               error_message |-> error_message] >>
                      ELSE <<>>) \o upd.alerts ]

\* A mutant of should_failover: FAILING is not enough.
ShouldFailoverOnlyFailed(hm) == hm.status = FAILED

\* TwitterHealthMonitor.should_failover
ShouldFailover(hm) == hm.status \in {FAILING, FAILED}

\* A mutant of reset: the event window survives.
ResetKeepsEvents(hm) == [hm EXCEPT !.metrics = NewMetrics, !.status = HEALTHY]

\* TwitterHealthMonitor.reset ; the registered callbacks stay
Reset(hm) == [hm EXCEPT !.metrics = NewMetrics, !.status = HEALTHY, !.recent_events = <<>>]

-----------------------------------------------------------------------------
(* account_pool.py *)

\* TwitterAccount.__init__ ; last_used = None
NewAccount ==
    [ is_active |-> FALSE, is_banned |-> FALSE, last_used |-> None,
      total_requests |-> 0, failed_requests |-> 0 ]

ban_keywords == <<
    <<"s","u","s","p","e","n","d","e","d">>,
    <<"b","a","n","n","e","d">>,
    <<"l","o","c","k","e","d">>,
    <<"f","o","r","b","i","d","d","e","n">>,
    <<"a","u","t","h","o","r","i","z","a","t","i","o","n">> >>

\* TwitterAccount._check_if_banned
CheckIfBanned(error_message) ==
    \E k \in 1..Len(ban_keywords) : Contains(Lower(error_message), ban_keywords[k])

\* The outcome of the authentication collaborator: <<>> when it succeeded,
\* else the text of the exception it raised
LoginOk == <<>>

\* TwitterAccount.login
Login(acc, outcome) ==
    IF outcome = LoginOk
    THEN [acc EXCEPT !.is_active = TRUE]
    ELSE [acc EXCEPT !.is_banned = CheckIfBanned(outcome)]

\* A mutant of mark_used: last_used is not stamped.
MarkUsedNoStamp(acc, t) == [acc EXCEPT !.total_requests = @ + 1]

\* TwitterAccount.mark_used
MarkUsed(acc, t) == [acc EXCEPT !.last_used = t, !.total_requests = @ + 1]

\* TwitterAccount.mark_failed
MarkFailed(acc) == [acc EXCEPT !.failed_requests = @ + 1]

(* TwitterAccount.health_score is the float                                *)
(*     success_rate*0.5 + usage_score*0.3 + recency_score*0.2              *)
(* Here it is the exact ratio HealthScoreNum / HealthScoreDen, with        *)
(* 180000 = 10 * lcm(1000, 720) * 1 clearing 1000 (usage), 24h = 1440 min  *)
(* (recency) and the weights.                                              *)
MinutesPerDay == 1440
UsageCeiling == 1000

ScoreDivisor(acc) == IF acc.total_requests = 0 THEN 1 ELSE acc.total_requests

HealthScoreDen(acc) == 180000 * ScoreDivisor(acc)

\* A mutant of health_score: a banned account is scored like any other.
HealthScoreNumIgnoresBan(acc, t) ==
    LET d == ScoreDivisor(acc)
        success_part == IF acc.total_requests = 0 THEN 1
                        ELSE acc.total_requests - acc.failed_requests
        usage_part == IF acc.total_requests = 0 THEN UsageCeiling
                      ELSE IF UsageCeiling - acc.total_requests > 0
                           THEN UsageCeiling - acc.total_requests ELSE 0
        rested == IF acc.last_used = None THEN MinutesPerDay
                  ELSE IF t - acc.last_used < MinutesPerDay
                       THEN t - acc.last_used ELSE MinutesPerDay
    IN  90000 * success_part + d * (54 * usage_part + 25 * rested)

\* TwitterAccount.health_score (numerator)
HealthScoreNum(acc, t) ==
    IF acc.is_banned THEN 0
    ELSE LET d == ScoreDivisor(acc)
             success_part == IF acc.total_requests = 0 THEN 1
                             ELSE acc.total_requests - acc.failed_requests
             usage_part == IF acc.total_requests = 0 THEN UsageCeiling
                           ELSE IF UsageCeiling - acc.total_requests > 0
                                THEN UsageCeiling - acc.total_requests ELSE 0
             rested == IF acc.last_used = None THEN MinutesPerDay
                       ELSE IF t - acc.last_used < MinutesPerDay
                            THEN t - acc.last_used ELSE MinutesPerDay
         IN  90000 * success_part + d * (54 * usage_part + 25 * rested)

\* a.health_score > b.health_score; the common factor 180000 of the two
\* denominators is cancelled
ScoreGreater(a, b, t) ==
    HealthScoreNum(a, t) * ScoreDivisor(b) > HealthScoreNum(b, t) * ScoreDivisor(a)

\* One step of a stable sort by health_score, highest first: x goes behind
\* every element whose score is at least its own.
RECURSIVE InsertByScore(_, _, _, _)
InsertByScore(sorted, x, accounts, t) ==
    IF sorted = <<>> THEN <<x>>
    ELSE IF ScoreGreater(accounts[x], accounts[Head(sorted)], t)
         THEN <<x>> \o sorted
         ELSE <<Head(sorted)>> \o InsertByScore(Tail(sorted), x, accounts, t)

\* available.sort(key=lambda a: a.health_score, reverse=True): list.sort is
\* stable, also with reverse=True
RECURSIVE SortByScore(_, _, _)
SortByScore(available, accounts, t) ==
    IF available = <<>> THEN <<>>
    ELSE InsertByScore(SortByScore(SubSeq(available, 1, Len(available) - 1), accounts, t),
                       available[Len(available)], accounts, t)

\* A mutant of the filter: is_banned is forgotten.
AvailableIgnoresBan(accounts) ==
    SelectSeq([i \in 1..Len(accounts) |-> i], LAMBDA i : accounts[i].is_active)

\* available = [acc for acc in self.accounts if acc.is_active and not
\* acc.is_banned], as the indices of the accounts in list order
Available(accounts) ==
    SelectSeq([i \in 1..Len(accounts) |-> i],
              LAMBDA i : accounts[i].is_active /\ ~accounts[i].is_banned)

\* A mutant of _select_best_account: the last of the sorted list is taken.
SelectBestAccountLast(pool, t) ==
    LET available == Available(pool.accounts)
        sorted == SortByScore(available, pool.accounts, t)
    IN  IF available = <<>> THEN 0 ELSE sorted[Len(sorted)]

\* AccountPool._select_best_account: the index of the account, 0 for None
SelectBestAccount(pool, t) ==
    LET available == Available(pool.accounts)
    IN  IF available = <<>> THEN 0
        ELSE Head(SortByScore(available, pool.accounts, t))

\* AccountPool.__init__
NewAccountPool == [accounts |-> <<>>, current_account |-> 0]

\* AccountPool.get_current_client: the pool after it; the client returned is
\* that of pool.current_account (None when there is none)
GetCurrentClient(pool, t) ==
    IF pool.current_account = 0 THEN pool
    ELSE [pool EXCEPT !.accounts[pool.current_account] = MarkUsed(@, t)]

\* AccountPool.mark_current_failed
MarkCurrentFailed(pool) ==
    IF pool.current_account = 0 THEN pool
    ELSE [pool EXCEPT !.accounts[pool.current_account] = MarkFailed(@)]

-----------------------------------------------------------------------------
(* The program state as one record, and the operations on it *)

World ==
    [ now |-> now, hm |-> health_monitor, pool |-> account_pool, grok |-> grok_client,
      tc |-> twitter_client, history |-> alerts_history, tasks |-> tasks, reqs |-> reqs,
      hm_alerts |-> <<>>,   \* what health_monitor._trigger_alert was called with
      tc_alerts |-> <<>>,   \* what twitter_client._trigger_alert built
      ret |-> FALSE ]       \* the value the operation returned, where it has one

\* A mutant of store_alert: nothing is dropped.
StoreAlertUnbounded(history, alert) == Append(history, alert)

\* lifespan.store_alert
StoreAlert(history, alert) ==
    LET appended == Append(history, alert)
    IN  IF Len(appended) > MaxAlertsHistory THEN Tail(appended) ELSE appended

\* A mutant of the loop over the callbacks: the first callback that raises
\* ends the loop.
RECURSIVE NotifyCallbacksUntilRaise(_, _, _)
NotifyCallbacksUntilRaise(history, callbacks, alert) ==
    IF callbacks = <<>> THEN history
    ELSE IF Head(callbacks) = "store_alert"
    THEN NotifyCallbacksUntilRaise(StoreAlert(history, alert), Tail(callbacks), alert)
    ELSE history

\* Lines 87-91, `for callback in self.alert_callbacks: try: callback(alert)
\* except Exception`: store_alert keeps the alert; a callback that raises is
\* logged and the loop goes on.
RECURSIVE NotifyCallbacks(_, _, _)
NotifyCallbacks(history, callbacks, alert) ==
    IF callbacks = <<>> THEN history
    ELSE IF Head(callbacks) = "store_alert"
    THEN NotifyCallbacks(StoreAlert(history, alert), Tail(callbacks), alert)
    ELSE NotifyCallbacks(history, Tail(callbacks), alert)

\* UnifiedTwitterClient._trigger_alert: the alert carries the health status
\* and the provider flag as they are when it is built; the message text is
\* not modelled.
TriggerAlert(w, alert_type) ==
    LET alert == [ timestamp |-> w.now, type |-> alert_type,
                   health_status |-> w.hm.status, using_grok |-> w.tc.use_grok ]
    IN  [w EXCEPT !.tc_alerts = Append(@, alert),
                  !.history = NotifyCallbacks(@, w.tc.alert_callbacks, alert)]

\* A mutant of _switch_to_grok: the credentials of the fallback are not checked.
SwitchToGrokUnchecked(w) ==
    IF w.tc.use_grok THEN w
    ELSE TriggerAlert([w EXCEPT !.tc.use_grok = TRUE], "switched_to_grok")

\* A mutant of _switch_to_grok: no early return when Grok is in use already.
SwitchToGrokAgain(w) ==
    IF ~w.grok.logged_in THEN TriggerAlert(w, "failover_failed")
    ELSE TriggerAlert([w EXCEPT !.tc.use_grok = TRUE], "switched_to_grok")

\* UnifiedTwitterClient._switch_to_grok
SwitchToGrok(w) ==
    IF w.tc.use_grok THEN w
    ELSE IF ~w.grok.logged_in THEN TriggerAlert(w, "failover_failed")
    ELSE TriggerAlert([w EXCEPT !.tc.use_grok = TRUE], "switched_to_grok")

\* A mutant of _switch_to_twikit: the monitor is not reset.
SwitchToTwikitNoReset(w) ==
    IF ~w.tc.use_grok THEN w
    ELSE TriggerAlert([w EXCEPT !.tc.use_grok = FALSE], "switched_to_twikit")

\* UnifiedTwitterClient._switch_to_twikit
SwitchToTwikit(w) ==
    IF ~w.tc.use_grok THEN w
    ELSE TriggerAlert([w EXCEPT !.tc.use_grok = FALSE, !.hm = Reset(w.hm)],
                      "switched_to_twikit")

\* asyncio.create_task(account_pool.rotate_account(reason)): the coroutine
\* starts at a later turn of the event loop.  `current` notes the account
\* that was current when the task was created.
CreateRotateTask(w, reason) ==
    [w EXCEPT !.tasks = Append(@, [reason |-> reason,
                                   current |-> w.pool.current_account])]

\* A mutant of _on_health_alert: the rotation is scheduled whatever the
\* provider in use.
OnHealthAlertAlwaysRotates(w, alert) ==
    IF alert.type = "critical_failure"
    THEN SwitchToGrok(TriggerAlert(w, "twikit_critical_failure"))
    ELSE IF alert.type = "status_change" /\ alert.new_status = FAILING
    THEN CreateRotateTask(TriggerAlert(w, "twikit_degraded"), "health_degraded")
    ELSE IF alert.type = "status_change" /\ alert.new_status = FAILED
    THEN SwitchToGrok(TriggerAlert(w, "twikit_failed"))
    ELSE w

\* A mutant of _on_health_alert: a critical failure schedules a rotation
\* before the switch.
OnHealthAlertCriticalRotates(w, alert) ==
    IF alert.type = "critical_failure"
    THEN SwitchToGrok(CreateRotateTask(TriggerAlert(w, "twikit_critical_failure"),
                                       "health_degraded"))
    ELSE IF alert.type = "status_change" /\ alert.new_status = FAILING
    THEN LET w1 == TriggerAlert(w, "twikit_degraded")
         IN  IF ~w1.tc.use_grok THEN CreateRotateTask(w1, "health_degraded") ELSE w1
    ELSE IF alert.type = "status_change" /\ alert.new_status = FAILED
    THEN SwitchToGrok(TriggerAlert(w, "twikit_failed"))
    ELSE w

\* UnifiedTwitterClient._on_health_alert
OnHealthAlert(w, alert) ==
    IF alert.type = "critical_failure"
    THEN SwitchToGrok(TriggerAlert(w, "twikit_critical_failure"))
    ELSE IF alert.type = "status_change" /\ alert.new_status = FAILING
    THEN LET w1 == TriggerAlert(w, "twikit_degraded")
         IN  IF ~w1.tc.use_grok THEN CreateRotateTask(w1, "health_degraded") ELSE w1
    ELSE IF alert.type = "status_change" /\ alert.new_status = FAILED
    THEN SwitchToGrok(TriggerAlert(w, "twikit_failed"))
    ELSE w

\* TwitterHealthMonitor._trigger_alert for one alert: each registered
\* callback is called inside try/except.  twitter_client._on_health_alert
\* handles the alert; a callback that raises is logged and the loop goes on.
RECURSIVE CallHealthCallbacks(_, _, _)
CallHealthCallbacks(w, callbacks, alert) ==
    IF callbacks = <<>> THEN w
    ELSE IF Head(callbacks) = "_on_health_alert"
    THEN CallHealthCallbacks(OnHealthAlert(w, alert), Tail(callbacks), alert)
    ELSE CallHealthCallbacks(w, Tail(callbacks), alert)

\* The alerts of one monitor call, in order.  No callback touches the
\* monitor, so running them after the call that raised the alerts is the
\* same as running them inside.
RECURSIVE DeliverHealthAlerts(_, _)
DeliverHealthAlerts(w, alerts) ==
    IF alerts = <<>> THEN w
    ELSE DeliverHealthAlerts(
             CallHealthCallbacks([w EXCEPT !.hm_alerts = Append(@, Head(alerts))],
                                 w.hm.alert_callbacks, Head(alerts)),
             Tail(alerts))

\* health_monitor.record_success(...) with its alerts delivered
DoRecordSuccess(w, response_time) ==
    LET rs == RecordSuccess(w.hm, response_time, w.now)
    IN  DeliverHealthAlerts([w EXCEPT !.hm = rs.hm], rs.alerts)

\* health_monitor.record_failure(...) with its alerts delivered
DoRecordFailure(w, error_type, error_message) ==
    LET rf == RecordFailure(w.hm, error_type, error_message, w.now)
    IN  DeliverHealthAlerts([w EXCEPT !.hm = rf.hm], rf.alerts)

\* A mutant of rotate_account: the current account is marked banned for
\* every reason.
RotateAccountBansAlways(w, reason) ==
    LET pool1 == IF w.pool.current_account # 0
                 THEN [w.pool EXCEPT !.accounts[w.pool.current_account].is_banned = TRUE]
                 ELSE w.pool
        new_account == SelectBestAccount(pool1, w.now)
    IN  IF new_account = 0 \/ new_account = pool1.current_account
        THEN [w EXCEPT !.pool = pool1, !.ret = FALSE]
        ELSE [w EXCEPT !.pool = [pool1 EXCEPT !.current_account = new_account],
                       !.hm = Reset(w.hm),
                       !.ret = TRUE]

\* A mutant of rotate_account: a manual rotation lifts every ban.
RotateAccountLiftsBan(w, reason) ==
    LET pool1 == IF reason = "manual"
                 THEN [w.pool EXCEPT !.accounts =
                          [i \in DOMAIN @ |-> [@[i] EXCEPT !.is_banned = FALSE]]]
                 ELSE IF w.pool.current_account # 0
                 THEN [w.pool EXCEPT !.accounts[w.pool.current_account].is_banned = TRUE]
                 ELSE w.pool
        new_account == SelectBestAccount(pool1, w.now)
    IN  IF new_account = 0 \/ new_account = pool1.current_account
        THEN [w EXCEPT !.pool = pool1, !.ret = FALSE]
        ELSE [w EXCEPT !.pool = [pool1 EXCEPT !.current_account = new_account],
                       !.hm = Reset(w.hm),
                       !.ret = TRUE]

\* A mutant of rotate_account: a rotation that finds another account takes
\* the client back to Twikit.
RotateAccountLeavesGrok(w, reason) ==
    LET pool1 == IF w.pool.current_account # 0 /\ reason # "manual"
                 THEN [w.pool EXCEPT !.accounts[w.pool.current_account].is_banned = TRUE]
                 ELSE w.pool
        new_account == SelectBestAccount(pool1, w.now)
    IN  IF new_account = 0 \/ new_account = pool1.current_account
        THEN [w EXCEPT !.pool = pool1, !.ret = FALSE]
        ELSE [w EXCEPT !.pool = [pool1 EXCEPT !.current_account = new_account],
                       !.hm = Reset(w.hm),
                       !.tc.use_grok = FALSE,
                       !.ret = TRUE]

\* A mutant of rotate_account: the monitor is not reset after the switch.
RotateAccountNoReset(w, reason) ==
    LET pool1 == IF w.pool.current_account # 0 /\ reason # "manual"
                 THEN [w.pool EXCEPT !.accounts[w.pool.current_account].is_banned = TRUE]
                 ELSE w.pool
        new_account == SelectBestAccount(pool1, w.now)
    IN  IF new_account = 0 \/ new_account = pool1.current_account
        THEN [w EXCEPT !.pool = pool1, !.ret = FALSE]
        ELSE [w EXCEPT !.pool = [pool1 EXCEPT !.current_account = new_account],
                       !.ret = TRUE]

\* AccountPool.rotate_account: no await inside, so it runs in one piece
RotateAccount(w, reason) ==
    LET pool1 == IF w.pool.current_account # 0 /\ reason # "manual"
                 THEN [w.pool EXCEPT !.accounts[w.pool.current_account].is_banned = TRUE]
                 ELSE w.pool
        new_account == SelectBestAccount(pool1, w.now)
    IN  IF new_account = 0 \/ new_account = pool1.current_account
        THEN [w EXCEPT !.pool = pool1, !.ret = FALSE]
        ELSE [w EXCEPT !.pool = [pool1 EXCEPT !.current_account = new_account],
                       !.hm = Reset(w.hm),
                       !.ret = TRUE]

-----------------------------------------------------------------------------
(* The cache key and the response cache *)

\* The characters the model uses, in code point order
Alphabet == <<" ","$","0","1","2","3","4","5","6","7","8","9",":",
              "A","B","C","D","E","F","G","H","I","J","K","L","M","N","O","P","Q","R","S","T","U","V","W","X","Y","Z","_",
              "a","b","c","d","e","f","g","h","i","j","k","l","m","n","o","p","q","r","s","t","u","v","w","x","y","z">>

Ord(c) == CHOOSE i \in 1..Len(Alphabet) : Alphabet[i] = c

\* a < b for str
RECURSIVE StrLess(_, _)
StrLess(a, b) ==
    IF b = <<>> THEN FALSE
    ELSE IF a = <<>> THEN TRUE
    ELSE IF Head(a) = Head(b) THEN StrLess(Tail(a), Tail(b))
    ELSE Ord(Head(a)) < Ord(Head(b))

RECURSIVE InsertStr(_, _)
InsertStr(sorted, x) ==
    IF sorted = <<>> THEN <<x>>
    ELSE IF StrLess(x, Head(sorted)) THEN <<x>> \o sorted
    ELSE <<Head(sorted)>> \o InsertStr(Tail(sorted), x)

\* sorted(queries)
RECURSIVE Sorted(_)
Sorted(queries) ==
    IF queries = <<>> THEN <<>>
    ELSE InsertStr(Sorted(SubSeq(queries, 1, Len(queries) - 1)), queries[Len(queries)])

\* sep.join(strs)
RECURSIVE Join(_, _)
Join(strs, sep) ==
    IF strs = <<>> THEN <<>>
    ELSE IF Len(strs) = 1 THEN Head(strs)
    ELSE Head(strs) \o sep \o Join(Tail(strs), sep)

DecimalDigits == <<"0","1","2","3","4","5","6","7","8","9">>

\* str(n) for n >= 0
RECURSIVE Decimal(_)
Decimal(n) ==
    IF n < 10 THEN <<DecimalDigits[n + 1]>>
    ELSE Decimal(n \div 10) \o <<DecimalDigits[(n % 10) + 1]>>

\* A mutant of the key: the queries are joined as given.
CacheKeyUnsorted(queries, timeframe_minutes) ==
    <<"s","e","a","r","c","h",":">> \o Join(queries, <<":">>)
        \o <<":">> \o Decimal(timeframe_minutes)

\* cache_key = f"search:{':'.join(sorted(queries))}:{timeframe_minutes}"
CacheKey(queries, timeframe_minutes) ==
    <<"s","e","a","r","c","h",":">> \o Join(Sorted(queries), <<":">>)
        \o <<":">> \o Decimal(timeframe_minutes)

\* A result payload.  `error` marks the neutral result grok_client returns
\* for a response it could not parse.  NoResult stands for None.
NoResult == [source |-> "none", mention_count |-> 0, error |-> FALSE]

\* A mutant of the cache read: expiry is not looked at.
CacheGetNoExpiry(cache, key, t) ==
    IF key \in DOMAIN cache THEN cache[key].value ELSE NoResult

\* diskcache.Cache.get(key): the stored value while its expiry lies ahead
CacheGet(cache, key, t) ==
    IF key \in DOMAIN cache /\ cache[key].expire_time > t
    THEN cache[key].value
    ELSE NoResult

\* diskcache.Cache.set(key, value, expire=300)
CacheSet(cache, key, value, t) ==
    [k \in DOMAIN cache \cup {key} |->
        IF k = key THEN [value |-> value, expire_time |-> t + CacheExpireMinutes]
        ELSE cache[k]]

-----------------------------------------------------------------------------
(* UnifiedTwitterClient.search_token *)

\* An exception: type(e).__name__ and str(e).  NoError stands for none.
NoError == [type |-> <<>>, message |-> <<>>]

NoAccountsError ==
    [ type |-> <<"E","x","c","e","p","t","i","o","n">>,
      message |-> <<"N","o"," ","a","v","a","i","l","a","b","l","e"," ","T","w","i","k","i","t"," ","a","c","c","o","u","n","t","s">> ]

\* What the interpreter raises when the nesting of calls passes its limit
RecursionError ==
    [ type |-> <<"R","e","c","u","r","s","i","o","n","E","r","r","o","r">>,
      message |-> <<"m","a","x","i","m","u","m"," ","r","e","c","u","r","s","i","o","n"," ","d","e","p","t","h"," ","e","x","c","e","e","d","e","d">> ]

(* One search_token coroutine.                                             *)
(*   pc        idle | twikit_wait | grok_wait | done                       *)
(*   client    the account whose client the coroutine holds (0: none)      *)
(*   depth     how many search_token frames are nested                     *)
(*   hit       the call was answered from the cache                        *)
(*   paths     per entry of the try block, the path it took                *)
(*   execs     the provider calls issued, in order                         *)
(*   thrown    what client.search_tweet raised in the last twikit call     *)
(*   outcome   none | returned | raised, with result or error              *)
NewRequest ==
    [ pc |-> "idle", queries |-> <<>>, timeframe_minutes |-> 0, start_time |-> None,
      client |-> 0, depth |-> 0, hit |-> FALSE, paths |-> <<>>, execs |-> <<>>,
      thrown |-> NoError, outcome |-> "none", result |-> NoResult, error |-> NoError ]

\* return result
Return(w, r, result) ==
    [w EXCEPT !.reqs[r].pc = "done", !.reqs[r].outcome = "returned",
              !.reqs[r].result = result]

\* an exception leaves the outermost search_token
Raise(w, r, e) ==
    [w EXCEPT !.reqs[r].pc = "done", !.reqs[r].outcome = "raised", !.reqs[r].error = e]

\* unified_twitter_client.py imports `datetime` only: the name timedelta of
\* line 194 is undefined, and evaluating it raises NameError
TimedeltaDefined == FALSE

\* Lines 188-200, the loop over the queries.  Whatever a query does ends in
\* the handler of line 199: client.search_tweet raised (`thrown`), or it
\* returned and line 194 raised NameError.  Only with timedelta defined
\* would the recent tweets reach all_tweets.
CollectTweets(thrown, recent_tweets) ==
    IF thrown # NoError THEN 0
    ELSE IF TimedeltaDefined THEN recent_tweets
    ELSE 0

\* _analyze_tweets(all_tweets) and result['source'] = 'twikit'; of the
\* payload the mention count is kept
TwikitResult(n_tweets) == [source |-> "twikit", mention_count |-> n_tweets, error |-> FALSE]

\* A mutant of lines 206-213: the result is not cached.
CompleteSuccessNoCache(w, r, result) ==
    Return(DoRecordSuccess(w, w.now - w.reqs[r].start_time), r, result)

\* Lines 206-213: record success, cache the result, return it
CompleteSuccess(w, r, result) ==
    LET w1 == DoRecordSuccess(w, w.now - w.reqs[r].start_time)
        key == CacheKey(w.reqs[r].queries, w.reqs[r].timeframe_minutes)
    IN  Return([w1 EXCEPT !.tc.cache = CacheSet(@, key, result, w.now)], r, result)

\* A mutant of the cache hit: the hit is recorded as a success.
CacheHitRecorded(w, r, cached) ==
    Return(DoRecordSuccess([w EXCEPT !.reqs[r].hit = TRUE], 0), r, cached)

\* Lines 166-168: `if cached: return cached`.  A payload is a dict that
\* holds 'source', so a stored payload is never falsy.
CacheHit(w, r, cached) ==
    Return([w EXCEPT !.reqs[r].hit = TRUE], r, cached)

(* SearchToken: a call of search_token up to its first suspension or its   *)
(* end.  HandleFailure: the handler of line 215 for an exception e of the  *)
(* try block, including the nested search_token of line 227, which runs    *)
(* without a suspension in between.                                        *)
RECURSIVE SearchToken(_, _), HandleFailure(_, _, _)

SearchToken(w, r) ==
    LET req == w.reqs[r]
        cached == CacheGet(w.tc.cache, CacheKey(req.queries, req.timeframe_minutes), w.now)
        w0 == [w EXCEPT !.reqs[r].depth = @ + 1]
    IN  IF cached # NoResult
        THEN CacheHit(w0, r, cached)
        ELSE LET w1 == [w0 EXCEPT !.reqs[r].start_time = w.now,
                                  !.reqs[r].paths =
                                      Append(@, IF w.tc.use_grok THEN "grok" ELSE "twikit")]
             IN  IF w1.tc.use_grok
                 THEN [w1 EXCEPT !.reqs[r].pc = "grok_wait",
                                 !.reqs[r].execs = Append(@, "grok")]
                 ELSE IF w1.pool.current_account = 0
                 THEN HandleFailure(w1, r, NoAccountsError)
                 ELSE LET w2 == [w1 EXCEPT !.pool = GetCurrentClient(@, w.now),
                                           !.reqs[r].client = w1.pool.current_account]
                      IN  IF req.queries = <<>>
                          THEN CompleteSuccess(w2, r, TwikitResult(0))
                          ELSE [w2 EXCEPT !.reqs[r].pc = "twikit_wait",
                                          !.reqs[r].execs = Append(@, "twikit")]

HandleFailure(w, r, e) ==
    LET w1 == DoRecordFailure(w, e.type, e.message)
        w2 == [w1 EXCEPT !.pool = MarkCurrentFailed(@)]
    IN  IF ShouldFailover(w2.hm) /\ ~w2.tc.use_grok
        THEN LET w3 == SwitchToGrok(w2)
             IN  IF w3.reqs[r].depth >= RecursionLimit
                 THEN Raise(w3, r, RecursionError)
                 ELSE SearchToken(w3, r)
        ELSE Raise(w2, r, e)

-----------------------------------------------------------------------------
(* Inputs *)

Slots == 1..NumSlots

QueryInputs == { << <<"b">>, <<"a">> >> }

Timeframes == {15}

TimeSteps == {1, 15}

\* What the fallback API call can raise
GrokTimeout ==
    [ type |-> <<"R","e","a","d","T","i","m","e","o","u","t">>,
      message |-> <<"t","i","m","e","d"," ","o","u","t">> ]
GrokForbidden ==
    [ type |-> <<"E","x","c","e","p","t","i","o","n">>,
      message |-> <<"G","r","o","k"," ","A","P","I"," ","e","r","r","o","r",":"," ","4","0","3">> ]
GrokErrors == {GrokTimeout, GrokForbidden}

\* What grok_client.search_token can return: the parsed payload, or the
\* neutral payload for a response that is no JSON
GrokPayloads ==
    { [source |-> "grok_api", mention_count |-> 7, error |-> FALSE],
      [source |-> "grok_api", mention_count |-> 0, error |-> TRUE] }

\* What client.search_tweet can raise
TwikitSuspended ==
    [ type |-> <<"A","c","c","o","u","n","t","S","u","s","p","e","n","d","e","d">>,
      message |-> <<"4","0","3">> ]
TwikitRateLimit ==
    [ type |-> <<"T","o","o","M","a","n","y","R","e","q","u","e","s","t","s">>,
      message |-> <<"4","2","9">> ]
TwikitErrors == {TwikitSuspended, TwikitRateLimit}

\* What the login of an account can end in
LoginOutcomes ==
    { LoginOk,
      <<"A","c","c","o","u","n","t"," ","S","u","s","p","e","n","d","e","d">> }

-----------------------------------------------------------------------------
(* The actions *)

NoJournal ==
    [ op |-> "init", req |-> 0, arg |-> NoError, before |-> HEALTHY,
      hm_alerts |-> <<>>, tc_alerts |-> <<>>, ret |-> FALSE ]

\* The program state becomes w; the journal notes the operation
Commit(w, op, r, arg) ==
    /\ health_monitor' = w.hm
    /\ account_pool' = w.pool
    /\ grok_client' = w.grok
    /\ twitter_client' = w.tc
    /\ alerts_history' = w.history
    /\ tasks' = w.tasks
    /\ reqs' = w.reqs
    /\ journal' = [ op |-> op, req |-> r, arg |-> arg, before |-> health_monitor.status,
                    hm_alerts |-> w.hm_alerts, tc_alerts |-> w.tc_alerts, ret |-> w.ret ]

Init ==
    /\ now = 0
    /\ phase = "constructed"
    /\ health_monitor = RegisterAlertCallback(NewHealthMonitor, "_on_health_alert")
    /\ account_pool = NewAccountPool
    /\ grok_client \in {[logged_in |-> b] : b \in BOOLEAN}
    /\ twitter_client = [use_grok |-> FALSE, cache |-> <<>>, alert_callbacks |-> <<>>]
    /\ alerts_history = <<>>
    /\ tasks = <<>>
    /\ reqs = [r \in Slots |-> NewRequest]
    /\ journal = NoJournal
    /\ used = [events |-> 0, ops |-> 0]

\* A mutant of initialize: the first login that fails ends it, with the
\* later accounts not logged in and no account selected.
RECURSIVE LoginUntilFailure(_, _)
LoginUntilFailure(outcomes, failed) ==
    IF outcomes = <<>> THEN <<>>
    ELSE <<IF failed THEN NewAccount ELSE Login(NewAccount, Head(outcomes))>>
         \o LoginUntilFailure(Tail(outcomes), failed \/ Head(outcomes) # LoginOk)

InitializePoolFatal(pool, outcomes, t) ==
    LET pool1 == [pool EXCEPT !.accounts = LoginUntilFailure(outcomes, FALSE)]
    IN  IF \E i \in 1..Len(outcomes) : outcomes[i] # LoginOk
        THEN pool1
        ELSE [pool1 EXCEPT !.current_account = SelectBestAccount(pool1, t)]

\* AccountPool.add_account for each configured account, then
\* AccountPool.initialize
InitializePool(pool, outcomes, t) ==
    LET logged == [i \in 1..Len(outcomes) |-> Login(NewAccount, outcomes[i])]
        pool1 == [pool EXCEPT !.accounts = logged]
    IN  [pool1 EXCEPT !.current_account = SelectBestAccount(pool1, t)]

\* main_v2.lifespan: the startup of the service.  With no account configured
\* nothing is initialised; else UnifiedTwitterClient.initialize runs and
\* store_alert is registered.  `key` says whether XAI_API_KEY is set.
Lifespan(outcomes, key) ==
    /\ phase = "constructed"
    /\ phase' = "running"
    /\ key \/ ~grok_client.logged_in
    /\ LET w == World
           w1 == IF outcomes = <<>> THEN w
                 ELSE [w EXCEPT !.pool = InitializePool(@, outcomes, now),
                                !.grok.logged_in = @ \/ key,
                                !.tc = RegisterAlertCallback(@, "store_alert")]
       IN  Commit(w1, "lifespan", 0, NoError)
    /\ UNCHANGED <<now, used>>

\* POST /api/search: search_token starts, in the lowest free slot
StartRequest(r, queries, timeframe_minutes) ==
    /\ phase = "running"
    /\ reqs[r].pc \in {"idle", "done"}
    /\ \A s \in 1..(r - 1) : reqs[s].pc \notin {"idle", "done"}
    /\ used.events < MaxEvents
    /\ used' = [used EXCEPT !.events = @ + 1]
    /\ LET w == [World EXCEPT !.reqs[r] = [NewRequest EXCEPT
                                  !.queries = queries,
                                  !.timeframe_minutes = timeframe_minutes]]
       IN  Commit(SearchToken(w, r), "search_token", r, NoError)
    /\ UNCHANGED <<now, phase>>

\* The awaits of line 191 are over: the loop ends, lines 202-213 run
TwikitResume(r, thrown) ==
    /\ reqs[r].pc = "twikit_wait"
    /\ LET w == [World EXCEPT !.reqs[r].thrown = thrown]
       IN  Commit(CompleteSuccess(w, r, TwikitResult(CollectTweets(thrown, 3))),
                  "twikit_resume", r, thrown)
    /\ UNCHANGED <<now, phase, used>>

\* The await of line 176 returns a payload
GrokReturns(r, payload) ==
    /\ reqs[r].pc = "grok_wait"
    /\ Commit(CompleteSuccess(World, r, payload), "grok_returns", r, NoError)
    /\ UNCHANGED <<now, phase, used>>

\* The await of line 176 raises
GrokRaises(r, e) ==
    /\ reqs[r].pc = "grok_wait"
    /\ Commit(HandleFailure(World, r, e), "grok_raises", r, e)
    /\ UNCHANGED <<now, phase, used>>

\* POST /api/switch-provider?provider=grok
SwitchProviderGrok ==
    /\ phase = "running"
    /\ used.events < MaxEvents
    /\ used' = [used EXCEPT !.events = @ + 1]
    /\ Commit(SwitchToGrok(World), "switch_to_grok", 0, NoError)
    /\ UNCHANGED <<now, phase>>

\* POST /api/switch-provider?provider=twikit
SwitchProviderTwikit ==
    /\ phase = "running"
    /\ used.events < MaxEvents
    /\ used' = [used EXCEPT !.events = @ + 1]
    /\ Commit(SwitchToTwikit(World), "switch_to_twikit", 0, NoError)
    /\ UNCHANGED <<now, phase>>

\* POST /api/rotate-account; answered with 400 while on Grok
RotateEndpoint ==
    /\ phase = "running"
    /\ ~twitter_client.use_grok
    /\ used.events < MaxEvents
    /\ used' = [used EXCEPT !.events = @ + 1]
    /\ Commit(RotateAccount(World, "manual"), "rotate_manual", 0, NoError)
    /\ UNCHANGED <<now, phase>>

\* The event loop runs the oldest task created by _on_health_alert
RunTask ==
    /\ tasks # <<>>
    /\ Commit(RotateAccount([World EXCEPT !.tasks = Tail(@)], Head(tasks).reason),
              "rotate_task", 0, NoError)
    /\ UNCHANGED <<now, phase, used>>

\* Time passes
Tick(d) ==
    /\ used.events < MaxEvents
    /\ now' = now + d
    /\ used' = [used EXCEPT !.events = @ + 1]
    /\ journal' = [NoJournal EXCEPT !.op = "tick", !.before = health_monitor.status]
    /\ UNCHANGED <<phase, health_monitor, account_pool, grok_client, twitter_client,
                   alerts_history, tasks, reqs>>

Next ==
    \/ \E n \in 0..NumAccounts : \E outcomes \in [1..n -> LoginOutcomes] :
          \E key \in BOOLEAN : Lifespan(outcomes, key)
    \/ \E r \in Slots : \E q \in QueryInputs : \E tf \in Timeframes : StartRequest(r, q, tf)
    \/ \E r \in Slots : \E thrown \in TwikitErrors \cup {NoError} : TwikitResume(r, thrown)
    \/ \E r \in Slots : \E payload \in GrokPayloads : GrokReturns(r, payload)
    \/ \E r \in Slots : \E e \in GrokErrors : GrokRaises(r, e)
    \/ SwitchProviderGrok
    \/ SwitchProviderTwikit
    \/ RotateEndpoint
    \/ RunTask
    \/ \E d \in TimeSteps : Tick(d)

Spec == Init /\ [][Next]_vars

-----------------------------------------------------------------------------
(* TwitterHealthMonitor taken alone: a monitor no callback is registered   *)
(* on, with its methods called directly                                    *)

\* Errors handed to record_failure.  The first two hold no critical keyword;
\* the third holds one in upper case, the fourth only across the type and
\* the message ("account not found"), the fifth only in the type.
PlainError ==
    [ type |-> <<"T","i","m","e","o","u","t">>, message |-> <<"5","0","3">> ]
NearMissError ==
    [ type |-> <<"L","o","c","k">>, message |-> <<"b","a","n"," ","4","0","4">> ]
UpperCaseError ==
    [ type |-> <<"E","r","r","o","r">>, message |-> <<"S","U","S","P","E","N","D","E","D">> ]
SplitError ==
    [ type |-> <<"A","c","c","o","u","n","t">>, message |-> <<"N","o","t"," ","f","o","u","n","d">> ]
TypeOnlyError ==
    [ type |-> <<"F","o","r","b","i","d","d","e","n">>, message |-> <<>> ]

NonCriticalInputs == {PlainError, NearMissError}
CriticalInputs == {UpperCaseError, SplitError, TypeOnlyError}

HMCommit(hm, alerts, op, arg) ==
    /\ health_monitor' = hm
    /\ journal' = [ op |-> op, req |-> 0, arg |-> arg, before |-> health_monitor.status,
                    hm_alerts |-> alerts, tc_alerts |-> <<>>, ret |-> FALSE ]
    /\ used' = [used EXCEPT !.ops = @ + 1]
    /\ UNCHANGED <<phase, account_pool, grok_client, twitter_client, alerts_history,
                   tasks, reqs>>

HMRecordSuccess(response_time) ==
    /\ used.ops < MaxOps
    /\ LET rs == RecordSuccess(health_monitor, response_time, now)
       IN  HMCommit(rs.hm, rs.alerts, "record_success", NoError)
    /\ UNCHANGED now

HMRecordFailure(e) ==
    /\ used.ops < MaxOps
    /\ LET rf == RecordFailure(health_monitor, e.type, e.message, now)
       IN  HMCommit(rf.hm, rf.alerts, "record_failure", e)
    /\ UNCHANGED now

HMReset ==
    /\ used.ops < MaxOps
    /\ HMCommit(Reset(health_monitor), <<>>, "reset", NoError)
    /\ UNCHANGED now

HMTick(d) ==
    /\ used.ops < MaxOps
    /\ now' = now + d
    /\ HMCommit(health_monitor, <<>>, "tick", NoError)

InitHM ==
    /\ now = 0
    /\ phase = "constructed"
    /\ health_monitor = NewHealthMonitor
    /\ account_pool = NewAccountPool
    /\ grok_client = [logged_in |-> FALSE]
    /\ twitter_client = [use_grok |-> FALSE, cache |-> <<>>, alert_callbacks |-> <<>>]
    /\ alerts_history = <<>>
    /\ tasks = <<>>
    /\ reqs = [r \in Slots |-> NewRequest]
    /\ journal = NoJournal
    /\ used = [events |-> 0, ops |-> 0]

NextHM ==
    \/ HMRecordSuccess(1)
    \/ \E e \in NonCriticalInputs \cup CriticalInputs : HMRecordFailure(e)
    \/ HMReset
    \/ \E d \in TimeSteps : HMTick(d)

SpecHM == InitHM /\ [][NextHM]_vars

-----------------------------------------------------------------------------
(* AccountPool taken alone: a pool in any state the service can bring it   *)
(* to, with its methods called directly                                    *)

\* Usage an account can have behind it at time 0: none; one failure marked
\* while another provider served (mark_current_failed without mark_used);
\* one request, good or failed
UsageProfiles ==
    { [total_requests |-> 0, failed_requests |-> 0, last_used |-> None],
      [total_requests |-> 0, failed_requests |-> 1, last_used |-> None],
      [total_requests |-> 1, failed_requests |-> 0, last_used |-> 0],
      [total_requests |-> 1, failed_requests |-> 1, last_used |-> 0] }

AccountStates ==
    { [ is_active |-> a, is_banned |-> b, last_used |-> u.last_used,
        total_requests |-> u.total_requests, failed_requests |-> u.failed_requests ] :
      a \in BOOLEAN, b \in BOOLEAN, u \in UsageProfiles }

\* A monitor with one plain failure recorded
UsedMonitor == RecordFailure(NewHealthMonitor, PlainError.type, PlainError.message, 0).hm

RestSteps == {720, 1440}

InitPool ==
    /\ now = 0
    /\ phase = "running"
    /\ health_monitor \in {NewHealthMonitor, UsedMonitor}
    /\ \E n \in 0..NumAccounts : \E accs \in [1..n -> AccountStates] :
          \E cur \in {0} \cup {i \in 1..n : accs[i].is_active} :
             account_pool = [accounts |-> accs, current_account |-> cur]
    /\ grok_client = [logged_in |-> FALSE]
    /\ twitter_client = [use_grok |-> FALSE, cache |-> <<>>, alert_callbacks |-> <<>>]
    /\ alerts_history = <<>>
    /\ tasks = <<>>
    /\ reqs = [r \in Slots |-> NewRequest]
    /\ journal = NoJournal
    /\ used = [events |-> 0, ops |-> 0]

PoolCommit(pool, hm, op, ret) ==
    /\ account_pool' = pool
    /\ health_monitor' = hm
    /\ journal' = [ op |-> op, req |-> 0, arg |-> NoError, before |-> health_monitor.status,
                    hm_alerts |-> <<>>, tc_alerts |-> <<>>, ret |-> ret ]
    /\ used' = [used EXCEPT !.ops = @ + 1]
    /\ UNCHANGED <<phase, grok_client, twitter_client, alerts_history, tasks, reqs>>

\* _select_best_account(); the journal notes the index it returned
PoolSelectBest ==
    /\ used.ops < MaxPoolOps
    /\ PoolCommit(account_pool, health_monitor, "select_best",
                  SelectBestAccount(account_pool, now))
    /\ UNCHANGED now

\* rotate_account(reason); the journal notes 1 for True, 0 for False
PoolRotate(reason) ==
    /\ used.ops < MaxPoolOps
    /\ LET w == RotateAccount(World, reason)
       IN  PoolCommit(w.pool, w.hm, reason, IF w.ret THEN 1 ELSE 0)
    /\ UNCHANGED now

\* get_current_client(); the journal notes the account whose client it gave
PoolGetCurrentClient ==
    /\ used.ops < MaxPoolOps
    /\ PoolCommit(GetCurrentClient(account_pool, now), health_monitor,
                  "get_current_client", account_pool.current_account)
    /\ UNCHANGED now

\* mark_current_failed()
PoolMarkCurrentFailed ==
    /\ used.ops < MaxPoolOps
    /\ PoolCommit(MarkCurrentFailed(account_pool), health_monitor, "mark_current_failed", 0)
    /\ UNCHANGED now

\* What the login of an account of the pool can end in: success, an error
\* that tells of a ban, an error that does not
PoolLoginOutcomes ==
    LoginOutcomes \cup { <<"t","i","m","e","d"," ","o","u","t">> }

\* initialize() on the pool as add_account left it: it runs once, at startup,
\* before any other operation.  The journal notes the outcomes of the logins.
PoolInitialize(outcomes) ==
    /\ used.ops = 0
    /\ account_pool.current_account = 0
    /\ Len(outcomes) = Len(account_pool.accounts)
    /\ \A i \in 1..Len(outcomes) : account_pool.accounts[i] = NewAccount
    /\ account_pool' = InitializePool(account_pool, outcomes, now)
    /\ journal' = [ op |-> "initialize", req |-> 0, arg |-> outcomes,
                    before |-> health_monitor.status,
                    hm_alerts |-> <<>>, tc_alerts |-> <<>>, ret |-> 0 ]
    /\ used' = [used EXCEPT !.ops = @ + 1]
    /\ UNCHANGED <<now, phase, health_monitor, grok_client, twitter_client,
                   alerts_history, tasks, reqs>>

PoolTick(d) ==
    /\ used.ops < MaxPoolOps
    /\ now' = now + d
    /\ PoolCommit(account_pool, health_monitor, "tick", 0)

NextPool ==
    \/ PoolSelectBest
    \/ \E reason \in {"manual", "health_degraded"} : PoolRotate(reason)
    \/ PoolGetCurrentClient
    \/ PoolMarkCurrentFailed
    \/ \E n \in 0..NumAccounts : \E outcomes \in [1..n -> PoolLoginOutcomes] :
          PoolInitialize(outcomes)
    \/ \E d \in RestSteps : PoolTick(d)

SpecPool == InitPool /\ [][NextPool]_vars

-----------------------------------------------------------------------------
(* The response cache in use: the service after a startup with one account *)
(* logged in and no XAI_API_KEY, serving requests whose query lists are     *)
(* reorderings of one another, under two timeframes.                        *)

CacheQueryInputs ==
    { << <<"a">>, <<"b">> >>, << <<"b">>, <<"a">> >>, << <<"a">> >>,
      << <<"b">>, <<"a">>, <<"b">> >>, << <<"b">>, <<"b">>, <<"a">> >> }

CacheTimeframes == {5, 15}

InitCache ==
    /\ now = 0
    /\ phase = "running"
    /\ health_monitor = RegisterAlertCallback(NewHealthMonitor, "_on_health_alert")
    /\ account_pool = InitializePool(NewAccountPool, <<LoginOk>>, 0)
    /\ grok_client = [logged_in |-> FALSE]
    /\ twitter_client = [use_grok |-> FALSE, cache |-> <<>>,
                         alert_callbacks |-> <<"store_alert">>]
    /\ alerts_history = <<>>
    /\ tasks = <<>>
    /\ reqs = [r \in Slots |-> NewRequest]
    /\ journal = [NoJournal EXCEPT !.op = "lifespan"]
    /\ used = [events |-> 0, ops |-> 0]

NextCache ==
    \/ \E r \in Slots : \E q \in CacheQueryInputs : \E tf \in CacheTimeframes :
          StartRequest(r, q, tf)
    \/ \E r \in Slots : TwikitResume(r, NoError)
    \/ \E d \in TimeSteps : Tick(d)

SpecCache == InitCache /\ [][NextCache]_vars

-----------------------------------------------------------------------------
(* The alert path taken alone: the monitor with _on_health_alert            *)
(* registered, the client with store_alert registered, and callbacks that   *)
(* raise registered next to them through register_alert_callback.  The      *)
(* operations are those that emit alerts.                                   *)

\* The history after the operator switched the provider k times at time 0,
\* to Grok and back in turn
ToggleHistory(k) ==
    [i \in 1..k |->
        [ timestamp |-> 0,
          type |-> IF i % 2 = 1 THEN "switched_to_grok" ELSE "switched_to_twikit",
          health_status |-> HEALTHY,
          using_grok |-> (i % 2 = 1) ]]

\* So many switches that the history is empty, one short of full, full
TogglesBefore == {0, MaxAlertsHistory - 1, MaxAlertsHistory}

\* The callbacks of the client: store_alert, alone or behind a callback
\* that raises
ClientCallbackLists == { <<"store_alert">>, <<"raising", "store_alert">> }

InitBus ==
    /\ now = 0
    /\ phase = "running"
    /\ health_monitor = RegisterAlertCallback(NewHealthMonitor, "_on_health_alert")
    /\ account_pool = InitializePool(NewAccountPool, <<LoginOk>>, 0)
    /\ \E k \in TogglesBefore : \E key \in BOOLEAN : \E cbs \in ClientCallbackLists :
          /\ k > 0 => key
          /\ grok_client = [logged_in |-> key]
          /\ twitter_client = [use_grok |-> (k % 2 = 1), cache |-> <<>>,
                               alert_callbacks |-> cbs]
          /\ alerts_history = ToggleHistory(k)
    /\ tasks = <<>>
    /\ reqs = [r \in Slots |-> NewRequest]
    /\ journal = [NoJournal EXCEPT !.op = "lifespan"]
    /\ used = [events |-> 0, ops |-> 0]

\* One operation of the alert path on the state w
BusApply(w, op, e) ==
    CASE op = "record_success" -> DoRecordSuccess(w, 1)
      [] op = "record_failure" -> DoRecordFailure(w, e.type, e.message)
      [] op = "switch_to_grok" -> SwitchToGrok(w)
      [] op = "switch_to_twikit" -> SwitchToTwikit(w)
      [] op = "register_health" -> [w EXCEPT !.hm = RegisterAlertCallback(@, "raising")]
      [] op = "register_client" -> [w EXCEPT !.tc = RegisterAlertCallback(@, "raising")]

BusStep(op, e) ==
    /\ used.ops < MaxBusOps
    /\ used' = [used EXCEPT !.ops = @ + 1]
    /\ Commit(BusApply(World, op, e), op, 0, e)
    /\ UNCHANGED <<now, phase>>

BusRecordSuccess == BusStep("record_success", NoError)

BusRecordFailure(e) == BusStep("record_failure", e)

BusSwitchToGrok == BusStep("switch_to_grok", NoError)

BusSwitchToTwikit == BusStep("switch_to_twikit", NoError)

\* health_monitor.register_alert_callback(f), f a callback that raises
BusRegisterHealth == BusStep("register_health", NoError)

\* twitter_client.register_alert_callback(f), f a callback that raises
BusRegisterClient == BusStep("register_client", NoError)

NextBus ==
    \/ BusRecordSuccess
    \/ \E e \in {PlainError, UpperCaseError} : BusRecordFailure(e)
    \/ BusSwitchToGrok
    \/ BusSwitchToTwikit
    \/ BusRegisterHealth
    \/ BusRegisterClient
    \/ Tick(1)

SpecBus == InitBus /\ [][NextBus]_vars

-----------------------------------------------------------------------------
(* The service with requests in flight: two accounts logged in at startup, *)
(* XAI_API_KEY set, the operator switched to Grok, and a search_token       *)
(* awaiting grok_client in every slot but the last.  From there the         *)
(* operator, the Grok calls and the scheduled rotations interleave.         *)

\* The state after startup with two accounts logged in and the key set
RunningOnTwoAccounts ==
    [ now |-> 0,
      hm |-> RegisterAlertCallback(NewHealthMonitor, "_on_health_alert"),
      pool |-> InitializePool(NewAccountPool, <<LoginOk, LoginOk>>, 0),
      grok |-> [logged_in |-> TRUE],
      tc |-> [use_grok |-> FALSE, cache |-> <<>>, alert_callbacks |-> <<"store_alert">>],
      history |-> <<>>, tasks |-> <<>>, reqs |-> [r \in Slots |-> NewRequest],
      hm_alerts |-> <<>>, tc_alerts |-> <<>>, ret |-> FALSE ]

\* search_token(['b','a'], 15) started in the slots 1..n, one after another
RECURSIVE WithRequestsStarted(_, _)
WithRequestsStarted(w, n) ==
    IF n = 0 THEN w
    ELSE LET w1 == WithRequestsStarted(w, n - 1)
         IN  SearchToken([w1 EXCEPT !.reqs[n] =
                             [NewRequest EXCEPT !.queries = << <<"b">>, <<"a">> >>,
                                                !.timeframe_minutes = 15]], n)

InFlightOnGrok == WithRequestsStarted(SwitchToGrok(RunningOnTwoAccounts), NumSlots - 1)

InitRace ==
    /\ now = 0
    /\ phase = "running"
    /\ health_monitor = InFlightOnGrok.hm
    /\ account_pool = InFlightOnGrok.pool
    /\ grok_client = InFlightOnGrok.grok
    /\ twitter_client = InFlightOnGrok.tc
    /\ alerts_history = InFlightOnGrok.history
    /\ tasks = InFlightOnGrok.tasks
    /\ reqs = InFlightOnGrok.reqs
    /\ journal = [NoJournal EXCEPT !.op = "search_token", !.req = NumSlots - 1]
    /\ used = [events |-> 0, ops |-> 0]

NextRace ==
    \/ \E r \in Slots : \E q \in QueryInputs : \E tf \in Timeframes : StartRequest(r, q, tf)
    \/ \E r \in Slots : TwikitResume(r, NoError)
    \/ \E r \in Slots : \E payload \in GrokPayloads : GrokReturns(r, payload)
    \/ \E r \in Slots : GrokRaises(r, GrokTimeout)
    \/ SwitchProviderGrok
    \/ SwitchProviderTwikit
    \/ RotateEndpoint
    \/ RunTask

SpecRace == InitRace /\ [][NextRace]_vars

-----------------------------------------------------------------------------
(* TwitterHealthMonitor with a long run behind it: the monitor after many   *)
(* successes and then many failures, all at time 0, so that response_times  *)
(* and failure_reasons are empty, one short of full, or full.               *)

\* The monitor after ns >= 1 calls record_success(1) followed by nf calls
\* record_failure with a plain error, nf >= max_consecutive_failures, all at
\* time 0: the counters, the two buffers and the window as the calls leave
\* them, and the status FAILING that the streak gives
LongRunMonitor(ns, nf) ==
    [ NewHealthMonitor EXCEPT
        !.metrics = [ total_requests |-> ns + nf,
                      successful_requests |-> ns,
                      failed_requests |-> nf,
                      consecutive_failures |-> nf,
                      last_success_time |-> 0,
                      last_failure_time |-> 0,
                      failure_reasons |->
                          [i \in 1..nf |-> PlainError.type \o <<":", " ">> \o PlainError.message],
                      average_response_time |-> [sum |-> ns, n |-> ns],
                      response_times |-> [i \in 1..ns |-> 1] ],
        !.status = FAILING,
        !.recent_events = [i \in 1..(ns + nf) |->
                              [timestamp |-> 0,
                               type |-> IF i <= ns THEN "success" ELSE "failure"]] ]

\* How far from full the two buffers are at the start
RingSlack == {0, 1}

InitRing ==
    /\ now = 0
    /\ phase = "constructed"
    /\ health_monitor \in
          {NewHealthMonitor} \cup
          { LongRunMonitor(MaxResponseTimes - d, MaxFailureReasons - d) : d \in RingSlack }
    /\ account_pool = NewAccountPool
    /\ grok_client = [logged_in |-> FALSE]
    /\ twitter_client = [use_grok |-> FALSE, cache |-> <<>>, alert_callbacks |-> <<>>]
    /\ alerts_history = <<>>
    /\ tasks = <<>>
    /\ reqs = [r \in Slots |-> NewRequest]
    /\ journal = NoJournal
    /\ used = [events |-> 0, ops |-> 0]

RingRecordSuccess(response_time) ==
    /\ used.ops < MaxRingOps
    /\ LET rs == RecordSuccess(health_monitor, response_time, now)
       IN  HMCommit(rs.hm, rs.alerts, "record_success", NoError)
    /\ UNCHANGED now

RingRecordFailure(e) ==
    /\ used.ops < MaxRingOps
    /\ LET rf == RecordFailure(health_monitor, e.type, e.message, now)
       IN  HMCommit(rf.hm, rf.alerts, "record_failure", e)
    /\ UNCHANGED now

NextRing ==
    \/ RingRecordSuccess(2)
    \/ \E e \in {NearMissError, UpperCaseError} : RingRecordFailure(e)

SpecRing == InitRing /\ [][NextRing]_vars

-----------------------------------------------------------------------------
(* Properties of TwitterHealthMonitor, stated over SpecHM *)

\* The types of the alerts of a sequence
AlertTypes(alerts) == {alerts[i].type : i \in 1..Len(alerts)}

\* The entry record_failure appends to failure_reasons for an error
ReasonOf(e) == e.type \o <<":", " ">> \o e.message

\* The last operation was a record_failure with a critical error
CriticalFailureRecorded ==
    journal.op = "record_failure" /\ journal.arg \in CriticalInputs

\* C4: a single record_failure whose "<type> <message>" holds a critical
\* keyword, in any letter case, leaves the status FAILED and hands a
\* critical_failure alert to the callbacks, whatever the status, the window
\* and the streak were before.
C4_CriticalFailureForcesFailed ==
    CriticalFailureRecorded =>
        /\ health_monitor.status = FAILED
        /\ "critical_failure" \in AlertTypes(journal.hm_alerts)

\* C4 happens: a critical failure whose keyword spans the type and the
\* message arrives at a monitor that was FAILING after a success
C4_Witness ==
    /\ CriticalFailureRecorded
    /\ journal.arg = SplitError
    /\ journal.before = FAILING
    /\ health_monitor.metrics.successful_requests > 0
    /\ health_monitor.status = FAILED

\* C5: FAILED is sticky.  A record_success or a record_failure, critical or
\* not, that starts in FAILED ends in FAILED; only reset() leaves FAILED.
C5_FailedIsSticky ==
    (journal.before = FAILED /\ journal.op # "reset") =>
        health_monitor.status = FAILED

\* C5 happens: a success is recorded on a FAILED monitor whose window then
\* holds successes only, and the status is still FAILED
C5_Witness ==
    /\ journal.before = FAILED
    /\ journal.op = "record_success"
    /\ Len(health_monitor.recent_events) > 0
    /\ WindowSuccesses(health_monitor) = Len(health_monitor.recent_events)
    /\ health_monitor.status = FAILED

\* The last five calls that changed the monitor were record_failure calls
\* with non-critical errors
FiveNonCriticalFailures ==
    LET reasons == health_monitor.metrics.failure_reasons
    IN  /\ health_monitor.metrics.consecutive_failures >= max_consecutive_failures
        /\ Len(reasons) >= max_consecutive_failures
        /\ \A i \in 0..(max_consecutive_failures - 1) :
              reasons[Len(reasons) - i] \in {ReasonOf(e) : e \in NonCriticalInputs}

\* A critical failure was recorded since construction or the last reset
CriticalFailureOnRecord ==
    \E i \in 1..Len(health_monitor.metrics.failure_reasons) :
       health_monitor.metrics.failure_reasons[i] \in {ReasonOf(e) : e \in CriticalInputs}

\* Window sizes for which the status decision is tabulated
MaxWindow == 20

\* C6 as the specification states it: after 5 consecutive failures with
\* non-critical errors the status is FAILING.
C6_FiveFailuresGiveFailing ==
    FiveNonCriticalFailures => health_monitor.status = FAILING

\* C6, amended: after 5 consecutive failures with non-critical errors the
\* status is FAILING when no critical failure was recorded since
\* construction or the last reset, and it is FAILED when one was; with such
\* a streak the decision is FAILING whatever the window holds.
C6_FiveFailuresGiveFailingUnlessFailed ==
    FiveNonCriticalFailures =>
        /\ health_monitor.status = (IF CriticalFailureOnRecord THEN FAILED ELSE FAILING)
        /\ \A n \in 1..MaxWindow : \A s \in 0..n :
              DetermineStatus(health_monitor.metrics.consecutive_failures, s, n) = FAILING

\* C6 happens: five non-critical failures of both kinds in a row, the
\* earliest of them already outside the window, and the status is FAILING
C6_Witness ==
    /\ FiveNonCriticalFailures
    /\ ~CriticalFailureOnRecord
    /\ Len(health_monitor.recent_events) < max_consecutive_failures
    /\ ReasonOf(NearMissError) \in
          {health_monitor.metrics.failure_reasons[i] :
              i \in 1..Len(health_monitor.metrics.failure_reasons)}
    /\ health_monitor.status = FAILING

\* The priority order of the specification, over a streak and the counts of
\* successes and failures in the window; the rate of an empty window is 1
ExpectedStatus(streak, successes, failures) ==
    LET events == successes + failures
    IN  CASE streak >= 5 -> FAILING
          [] streak < 5 /\ events > 0 /\ 10 * successes < 7 * events -> FAILING
          [] streak < 5 /\ events > 0 /\ 10 * successes >= 7 * events
                        /\ 20 * successes < 17 * events -> DEGRADED
          [] OTHER -> HEALTHY

\* The events of the window of one type
EventsOfType(type) ==
    Cardinality({i \in 1..Len(health_monitor.recent_events) :
                    health_monitor.recent_events[i].type = type})

\* The last operation re-evaluated the status: a record_success or a
\* non-critical record_failure on a monitor that was not FAILED
StatusReevaluated ==
    /\ journal.before # FAILED
    /\ \/ journal.op = "record_success"
       \/ journal.op = "record_failure" /\ journal.arg \in NonCriticalInputs

\* C7: after a record_success or a non-critical record_failure on a monitor
\* that is not FAILED, the status is the function of the streak and the
\* window rate the priority order gives: streak >= 5 FAILING, else rate <
\* 0.70 FAILING, else rate < 0.85 DEGRADED, else HEALTHY.  The rate is taken
\* over the events still in the window.  A window rate of 40% gives FAILING
\* and should_failover() true.  The decision is also compared for the
\* streak at hand and every window of up to MaxWindow events.
C7_StatusFollowsPriorityOrder ==
    StatusReevaluated =>
        LET streak == health_monitor.metrics.consecutive_failures
        IN  /\ \A i \in 1..Len(health_monitor.recent_events) :
                  health_monitor.recent_events[i].timestamp > now - time_window_minutes
            /\ health_monitor.status =
                  ExpectedStatus(streak, EventsOfType("success"), EventsOfType("failure"))
            /\ (10 * EventsOfType("success") = 4 * Len(health_monitor.recent_events)) =>
                  (health_monitor.status = FAILING /\ ShouldFailover(health_monitor))
            /\ \A n \in 0..MaxWindow : \A s \in 0..n :
                  DetermineStatus(streak, s, n) = ExpectedStatus(streak, s, n - s)
            /\ DetermineStatus(streak, 4, 10) = FAILING

\* C7 happens: a failure brings the window rate to 40% with a streak under
\* 5, and the status is FAILING
C7_Witness ==
    /\ StatusReevaluated
    /\ journal.op = "record_failure"
    /\ 10 * EventsOfType("success") = 4 * Len(health_monitor.recent_events)
    /\ health_monitor.metrics.consecutive_failures < max_consecutive_failures
    /\ health_monitor.status = FAILING
    /\ ShouldFailover(health_monitor)

\* C8: reset() yields the status HEALTHY, the counters zero, the buffers of
\* failure reasons and response times empty and the window empty, from any
\* state, and hands no alert to the callbacks.
C8_ResetYieldsFreshMonitor ==
    journal.op = "reset" =>
        /\ health_monitor.status = HEALTHY
        /\ health_monitor.metrics.total_requests = 0
        /\ health_monitor.metrics.successful_requests = 0
        /\ health_monitor.metrics.failed_requests = 0
        /\ health_monitor.metrics.consecutive_failures = 0
        /\ health_monitor.metrics.failure_reasons = <<>>
        /\ health_monitor.metrics.response_times = <<>>
        /\ health_monitor.recent_events = <<>>
        /\ journal.hm_alerts = <<>>

\* C8 happens: reset() on a FAILED monitor
C8_Witness ==
    /\ journal.op = "reset"
    /\ journal.before = FAILED
    /\ health_monitor.status = HEALTHY

\* C31: a record_success, or a record_failure with an error that is not
\* critical, on a monitor that is not FAILED hands the callbacks exactly one
\* alert, a status_change carrying the status before and the status after,
\* when the two differ, and no alert when they are equal.  A record_failure
\* with a critical error hands them one critical_failure alert carrying the
\* error and no status_change alert.
C31_StatusChangeAlertIffChanged ==
    /\ ( /\ \/ journal.op = "record_success"
             \/ (journal.op = "record_failure" /\ journal.arg \in NonCriticalInputs)
          /\ journal.before # FAILED ) =>
            journal.hm_alerts =
               IF health_monitor.status # journal.before
               THEN << [type |-> "status_change", old_status |-> journal.before,
                        new_status |-> health_monitor.status] >>
               ELSE <<>>
    /\ CriticalFailureRecorded =>
            journal.hm_alerts =
               << [type |-> "critical_failure", error_type |-> journal.arg.type,
                   error_message |-> journal.arg.message] >>

\* C31 happens: a success took the monitor from FAILING to DEGRADED and one
\* status_change alert went out
C31_Witness ==
    /\ journal.op = "record_success"
    /\ journal.before = FAILING
    /\ health_monitor.status = DEGRADED
    /\ Len(journal.hm_alerts) = 1

\* C40: the counters of the monitor stay consistent.  total_requests is the
\* sum of successful_requests and failed_requests; consecutive_failures lies
\* between 0 and failed_requests and is 0 right after a record_success;
\* failure_reasons holds at most MaxFailureReasons entries and
\* response_times at most MaxResponseTimes.  Stated over SpecRing.
C40_CountersConsistent ==
    LET m == health_monitor.metrics
    IN  /\ m.total_requests = m.successful_requests + m.failed_requests
        /\ 0 <= m.consecutive_failures
        /\ m.consecutive_failures <= m.failed_requests
        /\ journal.op = "record_success" => m.consecutive_failures = 0
        /\ Len(m.failure_reasons) <= MaxFailureReasons
        /\ Len(m.response_times) <= MaxResponseTimes

\* C40 happens: a failure arrived at a monitor whose failure_reasons was
\* full; the oldest reason went and the new one is the last
C40_Witness ==
    /\ journal.op = "record_failure"
    /\ health_monitor.metrics.failed_requests > MaxFailureReasons
    /\ Len(health_monitor.metrics.failure_reasons) = MaxFailureReasons
    /\ health_monitor.metrics.failure_reasons[MaxFailureReasons] = ReasonOf(journal.arg)
    /\ Len(health_monitor.metrics.response_times) = MaxResponseTimes

-----------------------------------------------------------------------------
(* Properties of AccountPool, stated over SpecPool *)

\* The accounts _select_best_account may choose from
SelectableAccounts ==
    {i \in 1..Len(account_pool.accounts) :
        account_pool.accounts[i].is_active /\ ~account_pool.accounts[i].is_banned}

\* Account i has the same health score as account j
SameScore(i, j) ==
    /\ ~ScoreGreater(account_pool.accounts[i], account_pool.accounts[j], now)
    /\ ~ScoreGreater(account_pool.accounts[j], account_pool.accounts[i], now)

\* C10: _select_best_account never returns a banned or an inactive account.
\* It returns the account of the highest health score among the active,
\* not banned ones, the earliest added of those that share the top score,
\* and it returns None exactly when there is no such account.
C10_SelectBestIsTopAvailable ==
    journal.op = "select_best" =>
        /\ (journal.ret = 0) <=> (SelectableAccounts = {})
        /\ journal.ret # 0 =>
              /\ journal.ret \in SelectableAccounts
              /\ \A j \in SelectableAccounts :
                    /\ ~ScoreGreater(account_pool.accounts[j],
                                     account_pool.accounts[journal.ret], now)
                    /\ SameScore(j, journal.ret) => journal.ret <= j

\* C10 happens: two used accounts share the top score, a banned one is
\* never the choice, and the earlier of the two is returned
C10_Witness ==
    /\ journal.op = "select_best"
    /\ \E i \in SelectableAccounts : \E j \in SelectableAccounts :
          /\ i < j
          /\ SameScore(i, j)
          /\ account_pool.accounts[i].total_requests > 0
          /\ journal.ret = i

\* C11: rotate_account with a reason other than "manual" marks the account
\* that was current when it began as banned, whether or not another account
\* is found; rotate_account("manual") changes the banned mark of no account.
C11_AutomaticRotationBansCurrent ==
    [][ /\ (journal'.op = "health_degraded" /\ account_pool.current_account # 0) =>
              /\ account_pool'.accounts[account_pool.current_account].is_banned
              /\ \A i \in 1..Len(account_pool.accounts) :
                    i # account_pool.current_account =>
                       account_pool'.accounts[i].is_banned =
                          account_pool.accounts[i].is_banned
        /\ journal'.op = "manual" =>
              \A i \in 1..Len(account_pool.accounts) :
                 account_pool'.accounts[i].is_banned = account_pool.accounts[i].is_banned
      ]_vars

\* C11 happens: an automatic rotation found no other account, returned
\* False, and the account that is still current is banned
C11_Witness ==
    /\ journal.op = "health_degraded"
    /\ journal.ret = 0
    /\ account_pool.current_account # 0
    /\ account_pool.accounts[account_pool.current_account].is_banned
    /\ Len(account_pool.accounts) > 1

\* The step is a rotate_account call
RotateStep == journal'.op \in {"manual", "health_degraded"}

\* C12: rotate_account returns True exactly when current_account changed to
\* another account, and then the monitor has been reset (HEALTHY, fresh
\* metrics, empty window).  When the account selected again is the current
\* one it returns False and changes nothing: not current_account, not a
\* field of any account, not the monitor.
C12_RotationSucceedsIffCurrentChanged ==
    [][ RotateStep =>
           /\ (journal'.ret = 1) <=>
                 (account_pool'.current_account # account_pool.current_account)
           /\ journal'.ret = 1 =>
                 /\ account_pool'.current_account # 0
                 /\ health_monitor' = NewHealthMonitor
           /\ ( /\ account_pool.current_account # 0
                /\ SelectBestAccount(account_pool', now) = account_pool.current_account ) =>
                 /\ journal'.ret = 0
                 /\ account_pool' = account_pool
                 /\ health_monitor' = health_monitor
      ]_vars

\* C12 happens: a manual rotation moved current_account to another account
\* and left a fresh monitor
C12_Witness ==
    /\ journal.op = "manual"
    /\ journal.ret = 1
    /\ account_pool.current_account # 0
    /\ \E i \in SelectableAccounts : i # account_pool.current_account
    /\ health_monitor = NewHealthMonitor

\* C13 as the specification states it: the health score of a banned account
\* is 0 whatever its other fields are, hence a banned account never
\* outranks one that is not banned.
C13_BannedScoresZeroAndNeverOutranks ==
    \A i \in 1..Len(account_pool.accounts) :
       account_pool.accounts[i].is_banned =>
          /\ HealthScoreNum(account_pool.accounts[i], now) = 0
          /\ \A j \in 1..Len(account_pool.accounts) :
                ~account_pool.accounts[j].is_banned =>
                   ~ScoreGreater(account_pool.accounts[i], account_pool.accounts[j], now)

-----------------------------------------------------------------------------
(* Properties of UnifiedTwitterClient.search_token, stated over Spec *)

\* C1 as the specification states it: on the primary path with the fallback
\* configured, a request whose primary execution meets a critical identity
\* error is answered from the fallback: the client switches to the fallback,
\* the request runs there, and what it returns is the fallback's result.
C1_CriticalErrorAnsweredByFallback ==
    \A r \in Slots :
       ( /\ reqs[r].pc = "done"
         /\ reqs[r].paths # <<>>
         /\ reqs[r].paths[1] = "twikit"
         /\ reqs[r].thrown = TwikitSuspended
         /\ grok_client.logged_in )
       => /\ "grok" \in {reqs[r].execs[i] : i \in 1..Len(reqs[r].execs)}
          /\ reqs[r].outcome = "returned" => reqs[r].result.source = "grok_api"

\* C2 as the specification states it: a request ends after at most two
\* executions, the original one and at most one retry, and the retry runs
\* on the fallback path.
C2_AtMostOneRetryOnFallback ==
    \A r \in Slots :
       /\ Len(reqs[r].paths) <= 2
       /\ Len(reqs[r].execs) <= 2
       /\ Len(reqs[r].paths) = 2 => reqs[r].paths[2] = "grok"

\* The last operation was a search_token that raised on the primary path
\* with no fallback configured
RaisedWithoutFallback ==
    /\ journal.op = "search_token"
    /\ reqs[journal.req].outcome = "raised"
    /\ reqs[journal.req].paths[1] = "twikit"
    /\ ~grok_client.logged_in

\* C3 as the specification states it: a request that fails on the primary
\* path while should_failover() holds and no fallback is configured emits a
\* failover_failed alert, leaves use_grok false and the status as the
\* monitor computed it, and raises the original error without running the
\* request again.
C3_UnconfiguredFallbackRaisesOriginal ==
    RaisedWithoutFallback =>
        /\ "failover_failed" \in AlertTypes(journal.tc_alerts)
        /\ ~twitter_client.use_grok
        /\ ShouldFailover(health_monitor)
        /\ Len(reqs[journal.req].paths) = 1
        /\ reqs[journal.req].error = NoAccountsError

\* The search_token call of this step was answered from the cache at once
CacheHitStep(r) ==
    /\ journal'.op = "search_token"
    /\ journal'.req = r
    /\ reqs'[r].hit
    /\ reqs'[r].paths = <<>>

\* C9: a search_token that hits the cache returns the cached payload
\* unchanged, calls no provider, changes neither the monitor (counters,
\* window, status) nor any account of the pool, and emits no alert.
C9_CacheHitHasNoEffect ==
    [][ \A r \in Slots :
           CacheHitStep(r) =>
              /\ reqs'[r].outcome = "returned"
              /\ LET key == CacheKey(reqs'[r].queries, reqs'[r].timeframe_minutes)
                 IN  /\ key \in DOMAIN twitter_client.cache
                     /\ twitter_client.cache[key].expire_time > now
                     /\ reqs'[r].result = twitter_client.cache[key].value
              /\ reqs'[r].execs = <<>>
              /\ health_monitor' = health_monitor
              /\ account_pool' = account_pool
              /\ twitter_client' = twitter_client
              /\ tasks' = tasks
              /\ alerts_history' = alerts_history
              /\ journal'.hm_alerts = <<>>
              /\ journal'.tc_alerts = <<>>
      ]_vars

\* C9 happens: a request was answered from the cache that a twikit request
\* filled
C9_Witness ==
    \E r \in Slots :
       /\ journal.op = "search_token"
       /\ journal.req = r
       /\ reqs[r].hit
       /\ reqs[r].paths = <<>>
       /\ reqs[r].result.source = "twikit"
       /\ health_monitor.metrics.total_requests = 1
       /\ account_pool.accounts[account_pool.current_account].total_requests = 1

-----------------------------------------------------------------------------
(* Properties of the client's self-healing, stated over Spec *)

\* The step switched the provider in use
ProviderChanged == twitter_client'.use_grok # twitter_client.use_grok

\* The step was a rotate_account call that returned True
RotationSucceeded ==
    journal'.op \in {"rotate_manual", "rotate_task"} /\ journal'.ret = TRUE

\* C14 as the specification states it: the monitor is reset whenever the
\* account or the provider in use changes.  After a rotation that returned
\* True, a switch to Grok or a switch back to Twikit the monitor is HEALTHY
\* with fresh metrics and an empty window.
C14_MonitorResetOnEveryChange ==
    [][ (ProviderChanged \/ RotationSucceeded) =>
           /\ health_monitor'.status = HEALTHY
           /\ health_monitor'.metrics = NewMetrics
           /\ health_monitor'.recent_events = <<>> ]_vars

\* C15 as the specification states it: a critical error of the primary
\* path (suspension, ban, invalid authorization) forces FAILED, marks the
\* account that met it as banned, and takes that account out of use.
C15_CriticalErrorBansAccount ==
    (journal.op = "twikit_resume" /\ journal.arg = TwikitSuspended) =>
        /\ health_monitor.status = FAILED
        /\ account_pool.accounts[reqs[journal.req].client].is_banned
        /\ account_pool.current_account # reqs[journal.req].client

\* C16 as the specification states it: a search_token that finds no current
\* account on the primary path fails at once: it raises the error of the
\* exhausted pool and is retried neither on the primary path nor on Grok.
C16_ExhaustedPoolFailsFast ==
    ( /\ journal.op = "search_token"
      /\ reqs[journal.req].paths # <<>>
      /\ reqs[journal.req].paths[1] = "twikit"
      /\ account_pool.current_account = 0 )
    => /\ reqs[journal.req].pc = "done"
       /\ reqs[journal.req].outcome = "raised"
       /\ reqs[journal.req].error = NoAccountsError
       /\ reqs[journal.req].paths = <<"twikit">>
       /\ reqs[journal.req].execs = <<>>

\* The status_change alerts to FAILING among the alerts of the monitor
FailingAlerts(alerts) ==
    {i \in 1..Len(alerts) :
        alerts[i].type = "status_change" /\ alerts[i].new_status = FAILING}

\* The twikit_degraded alerts the client built while use_grok was `flag`
DegradedAlerts(alerts, flag) ==
    {i \in 1..Len(alerts) :
        alerts[i].type = "twikit_degraded" /\ alerts[i].using_grok = flag}

\* C17: a status_change alert to FAILING raised while the client is on the
\* primary path schedules one rotate_account("health_degraded"); the same
\* alert raised while use_grok is set schedules none.  Nothing else
\* schedules a rotation.
C17_FailingAlertSchedulesRotation ==
    [][ journal'.op # "rotate_task" =>
           /\ Cardinality(FailingAlerts(journal'.hm_alerts)) =
                 Cardinality(DegradedAlerts(journal'.tc_alerts, TRUE))
                 + Cardinality(DegradedAlerts(journal'.tc_alerts, FALSE))
           /\ Len(tasks') =
                 Len(tasks) + Cardinality(DegradedAlerts(journal'.tc_alerts, FALSE))
           /\ SubSeq(tasks', 1, Len(tasks)) = tasks
           /\ \A i \in 1..Len(tasks') : tasks'[i].reason = "health_degraded"
      ]_vars

\* C17 happens: a search_token on the primary path raised the alert with
\* use_grok clear, and a rotation is scheduled
C17_Witness ==
    /\ journal.op = "search_token"
    /\ FailingAlerts(journal.hm_alerts) # {}
    /\ DegradedAlerts(journal.tc_alerts, FALSE) # {}
    /\ reqs[journal.req].paths[1] = "twikit"
    /\ Len(tasks) = 1

\* C18 as the specification states it: when a failure on the primary path
\* moves the status to FAILING, the rotation that transition schedules is
\* attempted before the client escalates to Grok for that failure: use_grok
\* is not set while the rotation is pending.
C18_RotationBeforeFallback ==
    ( /\ journal.op = "search_token"
      /\ FailingAlerts(journal.hm_alerts) # {}
      /\ DegradedAlerts(journal.tc_alerts, FALSE) # {}
      /\ tasks # <<>> )
    => ~twitter_client.use_grok

\* The step brought the monitor to FAILED
BecameFailed == health_monitor.status # FAILED /\ health_monitor'.status = FAILED

\* C19: when the status becomes FAILED the client goes straight to
\* _switch_to_grok: the step schedules no rotation, marks no account as
\* banned and leaves current_account alone, and use_grok is set after it
\* (with the switched_to_grok alert if it was clear before).
C19_FailedEscalatesWithoutRotation ==
    [][ BecameFailed =>
           /\ tasks' = tasks
           /\ account_pool'.current_account = account_pool.current_account
           /\ \A i \in 1..Len(account_pool.accounts) :
                 account_pool'.accounts[i].is_banned = account_pool.accounts[i].is_banned
           /\ "critical_failure" \in AlertTypes(journal'.hm_alerts)
           /\ "twikit_critical_failure" \in AlertTypes(journal'.tc_alerts)
           /\ grok_client.logged_in => twitter_client'.use_grok
           /\ (grok_client.logged_in /\ ~twitter_client.use_grok) =>
                 "switched_to_grok" \in AlertTypes(journal'.tc_alerts)
      ]_vars

\* C19 happens: a critical failure arrived with use_grok clear and a current
\* account, the status is FAILED, and the client switched to Grok
C19_Witness ==
    /\ journal.op = "grok_raises"
    /\ journal.before # FAILED
    /\ health_monitor.status = FAILED
    /\ "switched_to_grok" \in AlertTypes(journal.tc_alerts)
    /\ account_pool.current_account # 0
    /\ twitter_client.use_grok

\* C20: _switch_to_grok with use_grok set changes nothing: not the flag, not
\* the monitor, not the pool, and it emits no alert.  With use_grok clear and
\* Grok configured it sets the flag and emits one switched_to_grok alert and
\* no other.
C20_SwitchToGrokIdempotent ==
    [][ journal'.op = "switch_to_grok" =>
           /\ health_monitor' = health_monitor
           /\ account_pool' = account_pool
           /\ twitter_client.use_grok =>
                 /\ twitter_client' = twitter_client
                 /\ journal'.tc_alerts = <<>>
                 /\ alerts_history' = alerts_history
           /\ (~twitter_client.use_grok /\ grok_client.logged_in) =>
                 /\ twitter_client'.use_grok
                 /\ Len(journal'.tc_alerts) = 1
                 /\ journal'.tc_alerts[1].type = "switched_to_grok"
      ]_vars

\* C20 happens: _switch_to_grok was called with use_grok set after a
\* failover, with alerts on record, and emitted nothing
C20_Witness ==
    /\ journal.op = "switch_to_grok"
    /\ journal.tc_alerts = <<>>
    /\ twitter_client.use_grok
    /\ health_monitor.metrics.total_requests > 0
    /\ alerts_history # <<>>

\* C21: _switch_to_twikit with use_grok clear changes nothing: not the flag,
\* not the monitor, and it emits no alert.  With use_grok set it clears the
\* flag and leaves the monitor HEALTHY with zeroed metrics and an empty
\* window, whatever the status before, FAILED included, and emits one
\* switched_to_twikit alert.
C21_SwitchToTwikitResetsMonitor ==
    [][ journal'.op = "switch_to_twikit" =>
           /\ ~twitter_client.use_grok =>
                 /\ twitter_client' = twitter_client
                 /\ health_monitor' = health_monitor
                 /\ journal'.tc_alerts = <<>>
                 /\ alerts_history' = alerts_history
           /\ twitter_client.use_grok =>
                 /\ ~twitter_client'.use_grok
                 /\ health_monitor'.status = HEALTHY
                 /\ health_monitor'.metrics = NewMetrics
                 /\ health_monitor'.recent_events = <<>>
                 /\ Len(journal'.tc_alerts) = 1
                 /\ journal'.tc_alerts[1].type = "switched_to_twikit"
      ]_vars

\* C21 happens: _switch_to_twikit was called on Grok with the monitor FAILED
\* and left it HEALTHY
C21_Witness ==
    /\ journal.op = "switch_to_twikit"
    /\ journal.before = FAILED
    /\ Len(journal.tc_alerts) = 1
    /\ ~twitter_client.use_grok
    /\ health_monitor.status = HEALTHY

\* C23: a search_token that runs with use_grok set leaves the account pool as
\* it is, accounts and current account alike, whether the Grok call returns
\* or raises.
C23_GrokPathLeavesPoolAlone ==
    [][ ( /\ journal'.op \in {"search_token", "grok_returns", "grok_raises"}
          /\ twitter_client.use_grok ) => account_pool' = account_pool ]_vars

\* C24: is_banned is one-way.  No step of the service (startup and its
\* logins, a search_token and its handler, a rotation, manual or scheduled, a
\* provider switch, the passage of time) takes an account from banned to not
\* banned, and no step removes an account.
C24_BanIsOneWay ==
    [][ \A i \in 1..Len(account_pool.accounts) :
           account_pool.accounts[i].is_banned =>
              /\ i \in 1..Len(account_pool'.accounts)
              /\ account_pool'.accounts[i].is_banned ]_vars

\* C24 happens: a scheduled rotation banned the current account, and a later
\* step (a manual rotation, the end of a Grok call) ran with the ban standing
C24_Witness ==
    /\ journal.op \in {"rotate_manual", "grok_returns", "grok_raises"}
    /\ account_pool.current_account # 0
    /\ account_pool.accounts[account_pool.current_account].is_banned

\* Executions of request r that are over: every path it entered, less the one
\* whose provider call is still awaited
ExecutionsOver(req) ==
    Len(req.paths) - (IF req.pc \in {"twikit_wait", "grok_wait"} THEN 1 ELSE 0)

\* The step ran lines 206-213 for request journal'.req: the try block of
\* search_token came to its end with no exception
ExecutionSucceeded ==
    \/ journal'.op = "grok_returns"
    \/ journal'.op = "twikit_resume" /\ journal'.arg = NoError

C26_ProviderErrorRecordedAsFailure ==
    [][ ( /\ journal'.op \in {"twikit_resume", "grok_raises"}
          /\ journal'.arg # NoError ) =>
           /\ health_monitor'.metrics.failed_requests >
                  health_monitor.metrics.failed_requests
           /\ health_monitor'.metrics.successful_requests =
                  health_monitor.metrics.successful_requests
           /\ twitter_client'.cache = twitter_client.cache ]_vars

-----------------------------------------------------------------------------
(* Further properties of AccountPool, stated over SpecPool *)

\* C27: get_current_client() with a current account adds exactly 1 to that
\* account's total_requests and sets its last_used to the time of the call;
\* its other fields, the other accounts and the current account stay as they
\* are.  With no current account it changes nothing.  What ends a request on
\* the pool's side, mark_current_failed(), leaves every total_requests alone.
C27_GetCurrentClientCountsOnce ==
    [][ LET cur == account_pool.current_account
        IN  /\ (journal'.op = "get_current_client" /\ cur # 0) =>
                  /\ account_pool'.current_account = cur
                  /\ account_pool'.accounts =
                         [account_pool.accounts EXCEPT
                             ![cur].total_requests = @ + 1,
                             ![cur].last_used = now]
                  /\ journal'.ret = cur
            /\ (journal'.op = "get_current_client" /\ cur = 0) =>
                  account_pool' = account_pool
            /\ journal'.op = "mark_current_failed" =>
                  /\ account_pool'.current_account = cur
                  /\ \A i \in 1..Len(account_pool.accounts) :
                         account_pool'.accounts[i].total_requests =
                            account_pool.accounts[i].total_requests
      ]_vars

\* C27 happens: get_current_client() was called at a later time on an account
\* that had been used before, which now counts two requests
C27_Witness ==
    /\ journal.op = "get_current_client"
    /\ journal.ret # 0
    /\ now > 0
    /\ account_pool.accounts[journal.ret].total_requests = 2
    /\ account_pool.accounts[journal.ret].last_used = now

\* C28: initialize() logs in every account of the pool.  An account whose
\* login succeeds becomes active; one whose login fails stays inactive, and
\* the failure ends nothing: the accounts after it are logged in all the
\* same and the selection still runs.  No usage count changes.  Afterwards
\* the current account is the best by health score of the active, not banned
\* accounts, the earliest added on a tie, and None exactly when there is no
\* such account.
C28_InitializeSurvivesFailedLogins ==
    [][ journal'.op = "initialize" =>
           LET outcomes == journal'.arg
               accs == account_pool'.accounts
               cur == account_pool'.current_account
               selectable == {i \in 1..Len(accs) : accs[i].is_active /\ ~accs[i].is_banned}
           IN  /\ Len(accs) = Len(outcomes)
               /\ \A i \in 1..Len(accs) :
                     /\ accs[i].is_active = (outcomes[i] = LoginOk)
                     /\ accs[i].total_requests = account_pool.accounts[i].total_requests
                     /\ accs[i].failed_requests = account_pool.accounts[i].failed_requests
                     /\ accs[i].last_used = account_pool.accounts[i].last_used
               /\ (cur = 0) <=> (selectable = {})
               /\ cur # 0 =>
                     /\ cur \in selectable
                     /\ \A j \in selectable :
                           /\ ~ScoreGreater(accs[j], accs[cur], now)
                           /\ ~ScoreGreater(accs[cur], accs[j], now) => cur <= j
      ]_vars

\* C28 happens: the login of the first account failed, that of the second
\* succeeded, and the second is the current account
C28_Witness ==
    /\ journal.op = "initialize"
    /\ Len(account_pool.accounts) = 2
    /\ journal.arg[1] # LoginOk
    /\ ~account_pool.accounts[1].is_active
    /\ account_pool.accounts[2].is_active
    /\ account_pool.current_account = 2

-----------------------------------------------------------------------------
(* Properties of the response cache, stated over SpecCache *)

\* How often x occurs in the sequence s
Occurrences(s, x) == Cardinality({i \in 1..Len(s) : s[i] = x})

\* s and t hold the same terms, in whatever order
SameTerms(s, t) ==
    /\ Len(s) = Len(t)
    /\ \A i \in 1..Len(s) : Occurrences(s, s[i]) = Occurrences(t, s[i])

\* The entry the request of slot s left in the cache is there and not expired
EntryOf(s) ==
    LET key == CacheKey(reqs[s].queries, reqs[s].timeframe_minutes)
    IN  /\ reqs[s].outcome = "returned"
        /\ key \in DOMAIN twitter_client.cache
        /\ twitter_client.cache[key].expire_time > now

\* C29: the cache key does not depend on the order of the queries.  A
\* search_token whose queries are those of an earlier request in another
\* order, with the same timeframe, reads the entry that request left: while
\* it has not expired the call is a cache hit that returns the stored
\* payload and stores nothing.  Two requests of different timeframes have
\* different keys, and an entry of another timeframe alone gives no hit.
C29_CacheKeyIgnoresQueryOrder ==
    [][ journal'.op = "search_token" =>
           LET r == journal'.req
               key == CacheKey(reqs'[r].queries, reqs'[r].timeframe_minutes)
           IN  \A s \in Slots \ {r} :
                  LET key_s == CacheKey(reqs[s].queries, reqs[s].timeframe_minutes)
                  IN  /\ ( /\ SameTerms(reqs[s].queries, reqs'[r].queries)
                           /\ reqs[s].timeframe_minutes = reqs'[r].timeframe_minutes ) =>
                             /\ key = key_s
                             /\ EntryOf(s) =>
                                   /\ reqs'[r].hit
                                   /\ reqs'[r].result = twitter_client.cache[key_s].value
                                   /\ twitter_client'.cache = twitter_client.cache
                      /\ ( /\ reqs[s].pc # "idle"
                           /\ reqs[s].timeframe_minutes # reqs'[r].timeframe_minutes ) =>
                             /\ key # key_s
                             /\ DOMAIN twitter_client.cache \subseteq {key_s} => ~reqs'[r].hit
      ]_vars

\* C29 happens: a request found the entry that a request with the same
\* queries in another order had stored
C29_Witness ==
    /\ journal.op = "search_token"
    /\ reqs[journal.req].hit
    /\ \E s \in Slots \ {journal.req} :
          /\ EntryOf(s)
          /\ ~reqs[s].hit
          /\ reqs[s].queries # reqs[journal.req].queries
          /\ SameTerms(reqs[s].queries, reqs[journal.req].queries)
          /\ reqs[s].timeframe_minutes = reqs[journal.req].timeframe_minutes

-----------------------------------------------------------------------------
(* Properties of the alert path, stated over SpecBus *)

\* The callbacks of a list that do not raise
WellBehaved(callbacks) == SelectSeq(callbacks, LAMBDA c : c # "raising")

\* The state w with no raising callback registered
WithoutRaising(w) ==
    [w EXCEPT !.hm.alert_callbacks = WellBehaved(@),
              !.tc.alert_callbacks = WellBehaved(@)]

\* The operations that can emit alerts
EmittingOps == {"record_success", "record_failure", "switch_to_grok", "switch_to_twikit"}

\* C22: a callback that raises stops neither the delivery nor the operation.
\* With raising callbacks registered on the monitor or on the client,
\* record_success, record_failure, _switch_to_grok and _switch_to_twikit
\* leave the monitor, the pool, the provider flag, the scheduled rotations,
\* the alerts emitted and the stored history exactly as they would with no
\* raising callback registered: _on_health_alert gets every alert of the
\* monitor and store_alert every alert of the client.
C22_RaisingCallbackIsIsolated ==
    [][ ( /\ journal'.op \in EmittingOps
          /\ \/ WellBehaved(health_monitor.alert_callbacks) # health_monitor.alert_callbacks
             \/ WellBehaved(twitter_client.alert_callbacks) # twitter_client.alert_callbacks ) =>
           LET quiet == BusApply(WithoutRaising(World), journal'.op, journal'.arg)
               emitted == journal'.tc_alerts
           IN  /\ health_monitor'.metrics = quiet.hm.metrics
               /\ health_monitor'.status = quiet.hm.status
               /\ health_monitor'.recent_events = quiet.hm.recent_events
               /\ health_monitor'.alert_callbacks = health_monitor.alert_callbacks
               /\ account_pool' = quiet.pool
               /\ twitter_client'.use_grok = quiet.tc.use_grok
               /\ twitter_client'.alert_callbacks = twitter_client.alert_callbacks
               /\ tasks' = quiet.tasks
               /\ journal'.hm_alerts = quiet.hm_alerts
               /\ emitted = quiet.tc_alerts
               /\ alerts_history' = quiet.history
               /\ \A i \in 1..Len(emitted) :
                     alerts_history'[Len(alerts_history') - Len(emitted) + i] = emitted[i]
               /\ "critical_failure" \in AlertTypes(journal'.hm_alerts) =>
                     "twikit_critical_failure" \in AlertTypes(emitted)
      ]_vars

\* C22 happens: with a raising callback on the monitor and one ahead of
\* store_alert on the client, a critical failure was recorded, its alerts
\* went out and the last of them is the last of the history
C22_Witness ==
    /\ journal.op = "record_failure"
    /\ health_monitor.alert_callbacks = <<"_on_health_alert", "raising">>
    /\ Head(twitter_client.alert_callbacks) = "raising"
    /\ health_monitor.status = FAILED
    /\ Len(journal.tc_alerts) = 2
    /\ alerts_history[Len(alerts_history)] = journal.tc_alerts[2]

\* The provider flag when the k-th alert of an operation was built: the
\* flag is set just before a switched_to_grok alert, cleared just before a
\* switched_to_twikit alert, and otherwise no operation changes it
FlagAtEmission(emitted, k, flag) ==
    IF emitted[k].type = "switched_to_twikit" THEN FALSE
    ELSE flag \/ \E j \in 1..k : emitted[j].type = "switched_to_grok"

\* C30: store_alert keeps the last MaxAlertsHistory alerts in the order of
\* their emission.  After any step the history is the history before it
\* followed by the alerts the step emitted, less as many of the oldest as
\* exceed MaxAlertsHistory: nothing kept is altered or reordered, and the
\* length never exceeds MaxAlertsHistory.  Every alert stored carries the
\* status of the monitor and the provider flag as they were when it was
\* built.
C30_HistoryKeepsLastHundred ==
    [][ LET emitted == journal'.tc_alerts
            all == alerts_history \o emitted
            kept == IF Len(all) > MaxAlertsHistory THEN MaxAlertsHistory ELSE Len(all)
        IN  /\ Len(alerts_history') <= MaxAlertsHistory
            /\ alerts_history' = SubSeq(all, Len(all) - kept + 1, Len(all))
            /\ \A k \in 1..Len(emitted) :
                  /\ emitted[k].timestamp = now
                  /\ emitted[k].health_status = health_monitor'.status
                  /\ emitted[k].using_grok =
                         FlagAtEmission(emitted, k, twitter_client.use_grok)
      ]_vars

\* C30 happens: a critical failure sent two alerts to a full history, which
\* lost its two oldest records and ends with the two alerts, the first built
\* on the primary provider and the second on Grok
C30_Witness ==
    /\ journal.op = "record_failure"
    /\ Len(journal.tc_alerts) = 2
    /\ Len(alerts_history) = MaxAlertsHistory
    /\ alerts_history[1] = ToggleHistory(MaxAlertsHistory)[3]
    /\ alerts_history[MaxAlertsHistory - 1] = journal.tc_alerts[1]
    /\ alerts_history[MaxAlertsHistory] = journal.tc_alerts[2]
    /\ ~journal.tc_alerts[1].using_grok
    /\ journal.tc_alerts[2].using_grok

-----------------------------------------------------------------------------
(* Properties of the service under interleaved requests and rotations,     *)
(* stated over Spec                                                         *)

\* C32: the current account of the pool, when there is one, is active and
\* not banned, so that get_current_client() never hands out the client of a
\* banned account.
C32_CurrentAccountIsUsable ==
    account_pool.current_account # 0 =>
        /\ account_pool.accounts[account_pool.current_account].is_active
        /\ ~account_pool.accounts[account_pool.current_account].is_banned

\* C33: no account has more failed_requests than total_requests, so that
\* success_rate stays between 0 and 1.
C33_FailedWithinTotal ==
    \A i \in 1..Len(account_pool.accounts) :
       account_pool.accounts[i].failed_requests <= account_pool.accounts[i].total_requests

\* A rotation task scheduled by _on_health_alert ran
AutomaticRotationRan == journal'.op = "rotate_task"

\* C36: while use_grok is set no scheduled rotation takes effect.  A rotation
\* task that runs with use_grok set, whenever it was scheduled, marks no
\* account banned, leaves the current account as it is and does not reset
\* the monitor.
C36_NoAutomaticRotationOnGrok ==
    [][ (AutomaticRotationRan /\ twitter_client.use_grok) =>
           /\ account_pool' = account_pool
           /\ health_monitor' = health_monitor ]_vars

\* C38: use_grok is set only while grok_client is logged in, that is, while
\* XAI_API_KEY was configured: no failure, alert or switch request sets it
\* otherwise.
C38_GrokOnlyWhenConfigured ==
    twitter_client.use_grok => grok_client.logged_in

\* C38 happens: with no key configured the operator asked for Grok, the
\* client answered with a failover_failed alert and stayed on Twikit
C38_Witness ==
    /\ journal.op = "switch_to_grok"
    /\ ~grok_client.logged_in
    /\ ~twitter_client.use_grok
    /\ Len(journal.tc_alerts) = 1
    /\ journal.tc_alerts[1].type = "failover_failed"

\* C39: the client never goes back to Twikit of itself.  use_grok changes
\* from set to clear only in _switch_to_twikit; the end of a request,
\* whatever its outcome, the alerts of the monitor, a rotation and the
\* passage of time leave a set flag set.
C39_OnlySwitchToTwikitClearsFlag ==
    [][ (twitter_client.use_grok /\ ~twitter_client'.use_grok) =>
           journal'.op = "switch_to_twikit" ]_vars

\* C39 happens: on Grok, a scheduled rotation found another account and
\* reset the monitor, and the client is on Grok still
C39_Witness ==
    /\ journal.op = "rotate_task"
    /\ journal.ret
    /\ twitter_client.use_grok

\* The monitor is as __init__ or reset() leaves it
FreshMonitor ==
    /\ health_monitor.metrics = NewMetrics
    /\ health_monitor.status = HEALTHY
    /\ health_monitor.recent_events = <<>>

\* The step records the failure of a request that ran with use_grok clear:
\* a search_token that found no current account, or a Grok call that raised
\* after the operator had switched back to Twikit, in a frame the
\* interpreter lets call search_token once more
PrimaryFailureStep ==
    /\ ~twitter_client.use_grok
    /\ \/ /\ journal'.op = "search_token"
          /\ account_pool.current_account = 0
          /\ ~reqs'[journal'.req].hit
       \/ /\ journal'.op = "grok_raises"
          /\ ~IsCriticalFailure(journal'.arg.type, journal'.arg.message)
          /\ reqs[journal'.req].depth < RecursionLimit

\* C37: on a monitor as __init__ or reset() leaves it, the first failure
\* that is not critical takes the status to FAILING (the window holds 0
\* successes of 1) with a status_change alert from HEALTHY, so
\* should_failover() answers true; with Grok configured the handler sets
\* use_grok at once and retries the request, which goes to Grok unless the
\* cache answers it, having recorded that one failure only.
C37_FirstFailureAfterResetFailsOver ==
    [][ (FreshMonitor /\ PrimaryFailureStep) =>
           /\ journal'.hm_alerts =
                  << [type |-> "status_change", old_status |-> HEALTHY,
                      new_status |-> FAILING] >>
           /\ grok_client.logged_in =>
                  /\ health_monitor'.status = FAILING
                  /\ ShouldFailover(health_monitor')
                  /\ health_monitor'.metrics.failed_requests = 1
                  /\ health_monitor'.metrics.total_requests = 1
                  /\ twitter_client'.use_grok
                  /\ "switched_to_grok" \in AlertTypes(journal'.tc_alerts)
                  /\ \/ reqs'[journal'.req].pc = "grok_wait"
                     \/ reqs'[journal'.req].hit
      ]_vars

\* C37 happens: after a switch back to Twikit had reset the monitor, the
\* first search_token failed on the primary path and went over to Grok
C37_Witness ==
    /\ journal.op = "search_token"
    /\ reqs[journal.req].paths = <<"twikit", "grok">>
    /\ \E i \in 1..Len(alerts_history) : alerts_history[i].type = "switched_to_twikit"
    /\ health_monitor.status = FAILING
    /\ health_monitor.metrics.total_requests = 1
    /\ twitter_client.use_grok

\* C34: a request that fails on the primary path adds 1 to failed_requests
\* of the account whose client ran it, the account get_current_client()
\* counted the request on, whichever account is current when it fails.
C34_FailureChargedToExecutingAccount ==
    [][ (journal'.op = "twikit_resume" /\ journal'.arg # NoError) =>
           LET executing == reqs[journal'.req].client
           IN  account_pool'.accounts[executing].failed_requests =
                  account_pool.accounts[executing].failed_requests + 1 ]_vars

-----------------------------------------------------------------------------
(* Properties of the scheduled rotations, stated over SpecRace *)

\* C35: a scheduled rotation marks banned no account but the one that was
\* current when the status became FAILING and the rotation was scheduled;
\* an account that became current later is never the one it bans.
C35_RotationBansAccountOfTransition ==
    [][ journal'.op = "rotate_task" =>
           \A i \in 1..Len(account_pool.accounts) :
              (~account_pool.accounts[i].is_banned /\ account_pool'.accounts[i].is_banned)
                 => i = Head(tasks).current ]_vars

=============================================================================
